---- MODULE Spec2Model ----
(***************************************************************************)
(* Backbone.ModelBinder: the two-way binding engine between an observable  *)
(* model and a DOM subtree.  The repository holds three revisions of the   *)
(* engine:                                                                 *)
(*   "A"  src/Backbone.ModelBinder.js lines 1-618    (converter, elAttr    *)
(*        string, copyModelAttributesToView / copyViewValuesToModel)       *)
(*   "B"  src/Backbone.ModelBinder.js lines 619-1209 (binder registry,     *)
(*        filters, toView / toModel over attribute names)                  *)
(*   "C"  src/unnamed/part_000                       (toModel(element),    *)
(*        batched toView, configuration-error check)                       *)
(* A behaviour runs one revision (rev) on one DOM subtree and declaration  *)
(* set (scenario).  Every handler runs synchronously to completion, so an  *)
(* action is one whole handler, nested notifications included.             *)
(***************************************************************************)
EXTENDS Integers, Sequences, FiniteSets, TLC

VARIABLES
    rev,                \* which revision of the engine runs
    scenario,           \* which DOM subtree / declaration set is in use
    attributes,         \* model.attributes of model m1 (Absent = key not present)
    previousAttributes, \* model._previousAttributes of model m1
    otherAttributes,    \* model.attributes of model m2
    otherPrevious,      \* model._previousAttributes of model m2
    model,              \* this._model
    rootEl,             \* this._rootEl
    dom,                \* dynamic state of every element
    elSetting,          \* el._isSetting, per element
    bindingSetting,     \* elBinding._isSetting, per element binding <<i, j>>
    bindings,           \* this._bindings / this._attributeBindings (the graph)
    options,            \* this._options
    modelListening,     \* the models that carry the binder's 'change' listener
    rootListening,      \* the roots that carry the binder's delegated listeners
    detached,           \* the elements of the markup that are not in the document
    srcBindings,        \* the declarations object the application holds
    last                \* observation of the most recent external operation

vars == <<rev, scenario, attributes, previousAttributes, otherAttributes,
          otherPrevious, model, rootEl, dom, elSetting, bindingSetting, bindings,
          options, modelListening, rootListening, detached, srcBindings, last>>

-----------------------------------------------------------------------------
(* JavaScript values.  A JS string is the TLA+ string itself; every other  *)
(* JS value is a string starting with "#", so that the number 4 ("#4") and *)
(* the string "4" are different values, as === has it.                     *)

Undef == "#undefined"
Absent == "#absent"
TypeError == "#TypeError"
FilterError == "#FilterError"
NoEl == "#noel"
NoModel == "#nomodel"
NoRoot == "#noroot"

\* the models and the root elements the application has at hand
Models == {"m1", "m2"}
Roots == {"root1", "root2"}

Thrown(v) == v \in {TypeError, FilterError}

\* the engine's error for a recursion that exhausts the call stack
RangeError == "#RangeError"

Truthy(v) == v \notin {Undef, "", "#0", "#false"}

\* String(v) as the DOM setters coerce it (jQuery val(): null/undefined -> "",
\* number -> its decimal text).
ToStr(v) ==
    CASE v = Undef -> ""
      [] v = "#0" -> "0"
      [] v = "#4" -> "4"
      [] v = "#true" -> "true"
      [] v = "#false" -> "false"
      [] OTHER -> v

-----------------------------------------------------------------------------
(* The DOM.  Static markup: tag, type attribute, value attribute of the    *)
(* radios.  Dynamic state: value (form controls), checked, text, classes,   *)
(* the title attribute, the color style property, the disabled property    *)
(* and whether the element is hidden.                                      *)

El == {"num", "name", "disp", "r1", "r2", "r3", "cls", "name2"}

\* the root element whose subtree holds e: a second form holds name2
RootOf(e) == IF e = "name2" THEN "root2" ELSE "root1"

Tag(e) ==
    CASE e \in {"num", "name", "r1", "r2", "r3", "name2"} -> "input"
      [] e = "disp" -> "span"
      [] OTHER -> "div"

\* $el.attr('type'): Undef when the markup has no type attribute
TypeAttr(e) ==
    CASE e = "num" -> "text"
      [] e \in {"r1", "r2", "r3"} -> "radio"
      [] OTHER -> Undef

RadioValue(e) ==
    CASE e = "r1" -> "red"
      [] e = "r2" -> "green"
      [] e = "r3" -> "blue"
      [] OTHER -> Undef

IsRadio(e) == Tag(e) = "input" /\ TypeAttr(e) = "radio"

\* el.getAttribute('name'): Undef when the markup has no name attribute
NameAttr(e) ==
    CASE e \in {"name", "name2"} -> "name"
      [] e \in {"r1", "r2", "r3"} -> "color"
      [] OTHER -> Undef

\* the elements in document order
DocOrder == <<"num", "name", "disp", "r1", "r2", "r3", "cls", "name2">>

IsFormControl(e) == Tag(e) \in {"input", "select", "textarea"}

\* selector resolution against the static markup, in document order
Resolve(selector) ==
    CASE selector = "#num" -> <<"num">>
      [] selector = "[name=name]" -> <<"name", "name2">>
      [] selector = "#disp" -> <<"disp">>
      [] selector = "[name=color]" -> <<"r1", "r2", "r3">>
      [] selector = "#cls" -> <<"cls">>
      [] OTHER -> <<>>

\* $(selector, rootEl): the matches among the descendants of the root that
\* are in the document when the call is made
ResolveIn(r, selector) ==
    SelectSeq(Resolve(selector), LAMBDA e : RootOf(e) = r /\ e \notin detached)

InitDom ==
    [e \in El |->
        [value |-> "", checked |-> FALSE,
         text |-> IF e = "disp" THEN "init" ELSE "",
         classes |-> IF e = "cls" THEN {"x"} ELSE {},
         title |-> Undef, color |-> "", disabled |-> FALSE, hidden |-> FALSE]]

\* $el.val() as a getter
JqVal(d, e) == IF IsRadio(e) THEN RadioValue(e) ELSE d[e].value

-----------------------------------------------------------------------------
(* Caller-supplied filters.  "round" is a numeric filter: view->model      *)
(* parses and rounds the entry and throws on an entry that is no number;   *)
(* model->view is the identity.  "tagA" and "tagB" append a letter to the  *)
(* value (function (v) { return v + 'a' }), lower case model->view and     *)
(* upper case view->model.                                                 *)

\* v + c for a string c
Plus(v, c) ==
    (CASE v = Undef -> "undefined"
       [] v = "#0" -> "0"
       [] v = "#4" -> "4"
       [] OTHER -> v) \o c

ApplyFilter(f, dir, v) ==
    CASE f = "round" /\ dir = "toModel" ->
            (CASE v = "3.7" -> "#4"
               [] v = "4" -> "#4"
               [] v = "0" -> "#0"
               [] v = "" -> "#0"
               [] OTHER -> FilterError)
      [] f = "tagA" -> Plus(v, IF dir = "toModel" THEN "A" ELSE "a")
      [] f = "tagB" -> Plus(v, IF dir = "toModel" THEN "B" ELSE "b")
      [] OTHER -> v

-----------------------------------------------------------------------------
(* Scenarios: the subtree under the root, the declarations handed to bind, *)
(* and the small sets the application's and the user's inputs come from.   *)

EB(selector, elAttr, filters) ==
    [selector |-> selector, elAttr |-> elAttr, filters |-> filters,
     forceSync |-> TRUE, read |-> Undef]

Scenarios == {"num", "name", "color", "state", "two"}

\* scenarios that run on revision C: two models and two roots to bind
\* ("swap"), a selector that matches nothing under the second root and
\* arguments left out ("missing"), two element bindings on one element
\* ("conflict"), no declarations ("defaults"), a rounding binding declared
\* with forceSync false ("nosync"), class-level and per-bind modelSetOptions
\* ("setopts"), a second form whose declarations hold a number ("shape"), a
\* binding-level and an attribute-level filter on one binding ("compose"), a
\* default filter in the options and a binding declared without filters
\* ("gfilter"), a model attribute that holds false, bound to the text input
\* ("falsy"), a binding to a style property and an HTML attribute, on an
\* engine without and with the static String.slice ("style", "stylegen"), a
\* binding through the inverted binders ("flags"), an input bound through
\* the class binder only ("mark"), a radio group to which the application
\* adds a radio and from which it removes one ("grow"), one declarations
\* object passed to every bind ("reuse")
LateScenarios ==
    {"swap", "missing", "conflict", "defaults", "nosync", "setopts", "shape",
     "compose", "gfilter", "falsy", "style", "stylegen", "flags", "mark", "grow",
     "reuse"}

Declarations(sc) ==
    CASE sc = "num" ->
            << [modelAttr |-> "num", raw |-> << EB("#num", <<>>, "round") >>] >>
      [] sc = "name" ->
            << [modelAttr |-> "name",
                raw |-> << EB("[name=name]", <<>>, "identity"),
                           EB("#disp", <<"text">>, "identity") >>] >>
      [] sc \in {"color", "grow"} ->
            << [modelAttr |-> "color",
                raw |-> << EB("[name=color]", <<>>, "identity") >>] >>
      [] sc = "state" ->
            << [modelAttr |-> "state",
                raw |-> << EB("#cls", <<"class">>, "identity") >>] >>
      [] sc = "swap" ->
            << [modelAttr |-> "name",
                raw |-> << EB("[name=name]", <<>>, "identity") >>] >>
      [] sc = "missing" ->
            << [modelAttr |-> "name",
                raw |-> << EB("[name=name]", <<>>, "identity") >>],
               [modelAttr |-> "num",
                raw |-> << EB("#num", <<>>, "identity") >>] >>
      [] sc = "conflict" ->
            << [modelAttr |-> "num",
                raw |-> << EB("#num", <<>>, "round"),
                           EB("#num", <<>>, "identity") >>] >>
      [] sc = "defaults" -> <<>>
      [] sc = "nosync" ->
            << [modelAttr |-> "num",
                raw |-> << [EB("#num", <<>>, "round") EXCEPT !.forceSync = FALSE] >>] >>
      [] sc = "setopts" ->
            << [modelAttr |-> "num", raw |-> << EB("#num", <<>>, "identity") >>] >>
      [] sc = "compose" ->
            << [modelAttr |-> "num",
                raw |-> << EB("#num", <<"{", "value", "tagA", "}">>, "tagB") >>] >>
      [] sc = "gfilter" ->
            << [modelAttr |-> "num", raw |-> << EB("#num", <<>>, Undef) >>] >>
      [] sc = "falsy" ->
            << [modelAttr |-> "num", raw |-> << EB("#num", <<>>, "identity") >>] >>
      [] sc \in {"style", "stylegen"} ->
            << [modelAttr |-> "color",
                raw |-> << EB("#cls", <<"{", "css:color", "true",
                                        "title", "true", "}">>, "identity") >>] >>
      [] sc = "flags" ->
            << [modelAttr |-> "num",
                raw |-> << EB("#num", <<"{", "enabled", "true",
                                        "displayed", "true", "}">>, "identity") >>] >>
      [] sc = "reuse" ->
            << [modelAttr |-> "name",
                raw |-> << EB("[name=name]", <<>>, "identity") >>] >>
      [] sc = "mark" ->
            << [modelAttr |-> "name",
                raw |-> << EB("[name=name]", <<"class">>, "identity") >>] >>
      [] sc = "shape" ->
            << [modelAttr |-> "name",
                raw |-> << EB("[name=name]", <<>>, "identity") >> ] >>
      [] OTHER ->
            << [modelAttr |-> "name",
                raw |-> << EB("[name=name]", <<>>, "identity") >>],
               [modelAttr |-> "num",
                raw |-> << EB("#num", <<>>, "identity") >>] >>

\* the declarations the application passes when it binds root r: in "shape"
\* those of the second form give the attribute num the number 5
DeclarationsFor(sc, r) ==
    IF sc = "shape" /\ r = "root2"
    THEN Declarations(sc) \o << [modelAttr |-> "num", raw |-> << [primitive |-> "#5"] >>] >>
    ELSE Declarations(sc)

Attr == {"num", "name", "color", "state"}

\* the attributes the application sets in a scenario
ScenarioAttrs(sc) ==
    CASE sc \in {"num", "conflict", "nosync", "setopts", "compose", "gfilter",
                "falsy", "flags"} ->
            {"num"}
      [] sc \in {"name", "swap", "missing", "shape", "mark", "reuse"} -> {"name"}
      [] sc \in {"color", "style", "stylegen", "grow"} -> {"color"}
      [] sc = "state" -> {"state"}
      [] sc = "defaults" -> {"name", "color"}
      [] OTHER -> {"name", "num"}

\* the values the application sets an attribute to
AttrValues(a) ==
    CASE a = "num" -> {"#0", "#4"}
      [] a = "name" -> {"bob", "#0"}
      [] a = "color" -> {"red", "blue", "pink"}
      [] OTHER -> {"active", "inactive"}

\* the two-attribute scenario uses one value per attribute, as do the
\* scenarios of revision C
ScenarioValues(sc, a) ==
    CASE sc \in {"two", "swap", "missing", "conflict", "defaults", "nosync",
                "setopts", "shape", "compose", "gfilter", "style", "stylegen",
                "mark", "grow", "reuse"} ->
            (CASE a = "name" -> {"bob"} [] a = "num" -> {"#4"} [] OTHER -> {"red"})
      [] sc = "falsy" -> {"#false", "#4"}
      [] sc = "flags" -> {"#0", "#4"}
      [] OTHER -> AttrValues(a)

\* the elements of a scenario the user can edit, and what the user enters
ScenarioInputs(sc) ==
    CASE sc \in {"num", "conflict", "nosync", "setopts", "compose", "gfilter",
                "falsy"} ->
            {"num"}
      [] sc \in {"name", "missing", "shape", "mark", "reuse"} -> {"name"}
      [] sc \in {"color", "grow"} -> {"r1", "r2", "r3"}
      [] sc \in {"state", "style", "stylegen", "flags"} -> {}
      [] sc = "swap" -> {"name", "name2"}
      [] sc = "defaults" -> {"name", "r1", "name2"}
      [] OTHER -> {"name", "num"}

Entries(e) ==
    CASE e = "num" -> {"3.7", "4", "abc"}
      [] e = "name" -> {"bob", "0", ""}
      [] OTHER -> {"checked"}

\* the two-attribute scenario uses one entry per element, as do the
\* scenarios of revision C
ScenarioEntries(sc, e) ==
    CASE sc = "two" -> (IF e = "name" THEN {"bob"} ELSE {"4"})
      [] sc \in {"conflict", "nosync", "setopts", "gfilter"} -> {"3.7", "4"}
      [] sc = "compose" -> {"x", "y"}
      [] sc = "falsy" -> {"4"}
      [] sc \in {"swap", "missing", "defaults", "shape", "mark", "grow",
                 "reuse"} ->
            (IF IsRadio(e) THEN {"checked"} ELSE {"zed"})
      [] OTHER -> Entries(e)

\* the models and roots the application binds in a scenario (NoModel, NoRoot:
\* the argument is left out)
ScenarioModels(sc) == IF sc = "swap" THEN Models ELSE {"m1"}

BindTargets(sc) ==
    CASE sc = "swap" -> Models \X Roots
      [] sc = "missing" ->
            ({"m1"} \X Roots) \cup {<<NoModel, "root1">>, <<"m1", NoRoot>>}
      [] sc \in {"defaults", "shape"} -> {"m1"} \X Roots
      [] OTHER -> {<<"m1", "root1">>}

-----------------------------------------------------------------------------
(* Options (defaultOptions merged with what bind is given).                *)

\* the keys of a modelSetOptions object, and the selectors of a changeTriggers
\* object; a key the object does not have maps to Absent
SetOptionKeys == {"changeSource", "tag"}
TriggerSelectors == {"", "[contenteditable]", "input.x", "input.y"}

NoSetOptions == [k \in SetOptionKeys |-> Absent]
NoTriggers == [k \in TriggerSelectors |-> Absent]

DefaultChangeTriggers ==
    [NoTriggers EXCEPT ![""] = "change", !["[contenteditable]"] = "blur"]

DefaultOptions ==
    [initialCopyDirection |-> "ModelToView", forceGet |-> FALSE,
     suppressThrows |-> FALSE, skipDefaultTriggers |-> FALSE,
     defaultFilters |-> Undef,
     modelSetOptions |-> NoSetOptions, changeTriggers |-> DefaultChangeTriggers]

\* an option object that supplies neither triggers nor set options; its
\* scalar options are written with the value defaultOptions gives them
NoOptions == [DefaultOptions EXCEPT !.changeTriggers = NoTriggers]

\* jQuery's deep $.extend on one nested object: the keys of b override a's
Extend(a, b) == [k \in DOMAIN a |-> IF b[k] # Absent THEN b[k] ELSE a[k]]

\* _.omit(obj, keys)
Omit(obj, keys) == [k \in DOMAIN obj |-> IF k \in keys THEN Absent ELSE obj[k]]

\* _.keys(obj)
Keys(obj) == {k \in DOMAIN obj : obj[k] # Absent}

\* the constant that _initOptions merges last
SetOptionsMarker == [NoSetOptions EXCEPT !.changeSource = "ModelBinder"]

\* _initOptions with the marker merged before the options of the call
initOptions_markerFirst(classOptions, o) ==
    [o EXCEPT
      !.modelSetOptions =
          Extend(Extend(Extend(DefaultOptions.modelSetOptions, SetOptionsMarker),
                        classOptions.modelSetOptions), o.modelSetOptions),
      !.changeTriggers =
          Extend(Extend(DefaultOptions.changeTriggers, classOptions.changeTriggers),
                 o.changeTriggers)]

\* _initOptions: defaultOptions, ModelBinder.options, the options of the call
\* and the marker merged in this order, then the selectors of the default
\* triggers omitted when skipDefaultTriggers is set
initOptions(classOptions, o) ==
    LET merged == Extend(Extend(DefaultOptions.changeTriggers,
                                classOptions.changeTriggers), o.changeTriggers)
    IN  [o EXCEPT
          !.modelSetOptions =
              Extend(Extend(Extend(DefaultOptions.modelSetOptions,
                                   classOptions.modelSetOptions),
                            o.modelSetOptions), SetOptionsMarker),
          !.changeTriggers =
              IF o.skipDefaultTriggers
              THEN Omit(merged, Keys(DefaultOptions.changeTriggers))
              ELSE merged]

\* _configureRootElEvents: one delegated listener per entry of changeTriggers,
\* as <<selector, event>>
configureRootElEvents(config) == {<<k, config[k]>> : k \in Keys(config)}

\* the option objects the application passes to bind
OptionSets ==
    { NoOptions,
      [NoOptions EXCEPT !.initialCopyDirection = "ViewToModel"],
      [NoOptions EXCEPT !.initialCopyDirection = "None"],
      [NoOptions EXCEPT !.forceGet = TRUE] }

ScenarioOptions(sc) ==
    CASE sc \in {"missing", "conflict", "shape"} ->
            {NoOptions, [NoOptions EXCEPT !.suppressThrows = TRUE]}
      [] sc \in {"swap", "defaults", "nosync", "compose", "falsy", "style",
                 "stylegen", "flags", "mark", "grow", "reuse"} -> {NoOptions}
      [] sc = "gfilter" -> {NoOptions, [NoOptions EXCEPT !.defaultFilters = "round"]}
      [] sc = "setopts" ->
            {NoOptions,
             [NoOptions EXCEPT !.modelSetOptions.tag = "bind"],
             [NoOptions EXCEPT !.modelSetOptions.changeSource = "app",
                               !.initialCopyDirection = "ViewToModel"]}
      [] OTHER -> OptionSets

\* ModelBinder.options, the class-level options, which the application sets
\* before it creates binders
ClassOptions(sc) ==
    [modelSetOptions |-> IF sc = "setopts"
                         THEN [NoSetOptions EXCEPT !.tag = "class"]
                         ELSE NoSetOptions,
     changeTriggers |-> NoTriggers]

\* the class-level and per-call options _initOptions is exercised with
ClassOptionSets ==
    { ClassOptions("one"),
      [ClassOptions("one") EXCEPT !.changeTriggers["input.x"] = "keyup"] }

TriggerOptionSets ==
    { NoOptions,
      [NoOptions EXCEPT !.changeTriggers["input.y"] = "input"],
      [NoOptions EXCEPT !.changeTriggers[""] = "keyup"],
      [NoOptions EXCEPT !.skipDefaultTriggers = TRUE],
      [NoOptions EXCEPT !.skipDefaultTriggers = TRUE,
                        !.changeTriggers["input.y"] = "input"],
      [NoOptions EXCEPT !.skipDefaultTriggers = TRUE,
                        !.changeTriggers[""] = "keyup"] }

-----------------------------------------------------------------------------
(* The state a handler works on, threaded through the operators below:     *)
(* the program's variables plus the bookkeeping of the running call.       *)
(*   exc       the exception that aborted the call ("none" if none)        *)
(*   depth     handlers currently on the call stack; maxDepth its maximum  *)
(*   viewEl    the element whose view event is being handled               *)
(*   notifying inside the model's change notification                      *)
(*   nestedW   elements written by a change notification nested in the     *)
(*             handling of a view event                                    *)
(*   echoW     elements written by the view handler's own forced resync    *)
(*   written   every element written                                       *)
(*   keysThrows  whether _.keys(undefined) throws in the underscore in use *)

MaxDepth == 4

\* s.attributes / s.previousAttributes are those of the model s.focus, and
\* s.other / s.otherPrevious those of the other model; Refocus turns the
\* record to model m
Refocus(s, m) ==
    IF s.focus = m THEN s
    ELSE [s EXCEPT !.attributes = s.other, !.previousAttributes = s.otherPrevious,
                   !.other = s.attributes, !.otherPrevious = s.previousAttributes,
                   !.focus = m]

\* the record of the current state, turned to this._model when there is one
\* whether the application passes one and the same declarations object to
\* every bind, or a fresh object literal each time
Keeps(sc) == sc = "reuse"

Cur(keysThrows) ==
    Refocus(
        [attributes |-> attributes, previousAttributes |-> previousAttributes,
         other |-> otherAttributes, otherPrevious |-> otherPrevious,
         focus |-> "m1", model |-> model, rootEl |-> rootEl,
         changed |-> <<>>, dom |-> dom, elSetting |-> elSetting,
         bindingSetting |-> bindingSetting, bindings |-> bindings,
         options |-> options, modelListening |-> modelListening,
         rootListening |-> rootListening,
         exc |-> "none", depth |-> 0, maxDepth |-> 0, viewEl |-> NoEl,
         notifying |-> FALSE, nestedW |-> {}, echoW |-> {}, written |-> {},
         modelWrites |-> <<>>, setOptions |-> {},
         classOptions |-> ClassOptions(scenario), keysThrows |-> keysThrows,
         srcBindings |-> srcBindings, kept |-> Keeps(scenario)],
        IF model = "m2" THEN "m2" ELSE "m1")

Throw(s, e) == [s EXCEPT !.exc = e]

\* _throwException: raise, or only log when suppressThrows is set
throwException(s, message) ==
    IF s.options.suppressThrows THEN s ELSE Throw(s, message)

Get(s, a) == IF s.attributes[a] = Absent THEN Undef ELSE s.attributes[a]

Previous(s, a) ==
    IF s.previousAttributes[a] = Absent THEN Undef ELSE s.previousAttributes[a]

RECURSIVE Flatten(_)
Flatten(seqs) == IF seqs = <<>> THEN <<>> ELSE Head(seqs) \o Flatten(Tail(seqs))

Range(f) == {f[i] : i \in DOMAIN f}

\* keys of the binding graph, in declaration order
AttrKeys(g) == [i \in 1..Len(g) |-> g[i].modelAttr]

\* every element binding of the graph: _.chain(...).pluck(...).flatten(true)
AllBindings(g) == Flatten([i \in 1..Len(g) |-> g[i].bindings])

\* _.pick(graph, keys): the attribute bindings named by keys, in keys' order
PickBindings(g, keys) ==
    Flatten([k \in 1..Len(keys) |->
        SelectSeq(g, LAMBDA ab : ab.modelAttr = keys[k])])

-----------------------------------------------------------------------------
(* DOM writes.  The jQuery setters the binders use (.val, .prop, .text,    *)
(* .addClass, .removeClass) change the element and dispatch no DOM event.  *)

RECURSIVE OnViewChange(_, _)

\* a programmatic write that fired `change` on the element, as a user edit does
JqAfterWrite_trigger(s, e) ==
    IF RootOf(e) \in s.rootListening /\ s.depth < MaxDepth
    THEN OnViewChange(s, e) ELSE s

JqAfterWrite(s, e) == s

Touch(s, e) ==
    [s EXCEPT !.written = @ \cup {e},
              !.nestedW = IF s.viewEl # NoEl /\ s.notifying THEN @ \cup {e} ELSE @,
              !.echoW = IF s.viewEl # NoEl /\ ~s.notifying THEN @ \cup {e} ELSE @]

\* the radio branch only ever checking: a radio that stops matching stays checked
ValueBinder_checkOnly(d, e, value) ==
    IF TypeAttr(e) = "radio"
    THEN [d EXCEPT ![e].checked = @ \/ (JqVal(d, e) = value)]
    ELSE [d EXCEPT ![e].value = ToStr(value)]

\* defaultBinders.value (B, C) and _setElValue (A)
ValueBinder(d, e, value) ==
    IF TypeAttr(e) # Undef
    THEN CASE TypeAttr(e) = "radio" ->
                [d EXCEPT ![e].checked = (JqVal(d, e) = value)]
           [] TypeAttr(e) = "checkbox" ->
                [d EXCEPT ![e].checked = Truthy(value)]
           [] TypeAttr(e) = "file" -> d
           [] OTHER -> [d EXCEPT ![e].value = ToStr(value)]
    ELSE LET v == IF Truthy(value) THEN value
                  ELSE IF value = "#0" THEN "0" ELSE ""
         IN  IF IsFormControl(e)
             THEN [d EXCEPT ![e].value = ToStr(v)]
             ELSE [d EXCEPT ![e].text = ToStr(v)]

\* defaultBinders.text: jQuery's .text(undefined) is a getter and writes nothing
TextBinder(d, e, value) ==
    IF value = Undef THEN d ELSE [d EXCEPT ![e].text = ToStr(value)]

\* the class binder without the removal of the previous class
ClassBinder_keep(d, e, value, prevValue) ==
    [d EXCEPT ![e].classes = @ \cup (IF Truthy(value) THEN {value} ELSE {})]

\* defaultBinders.class
ClassBinder(d, e, value, prevValue) ==
    LET removed == IF Truthy(prevValue) THEN d[e].classes \ {prevValue}
                   ELSE d[e].classes
    IN  [d EXCEPT ![e].classes =
            removed \cup (IF Truthy(value) THEN {value} ELSE {})]

Binders == {"html", "text", "disabled", "hidden", "class", "value",
            "enabled", "displayed"}

\* the inverted binders and the binder each delegates to
Origin(key) == IF key = "enabled" THEN "disabled" ELSE "hidden"
Inverted == {"enabled", "displayed"}

\* isCssAttr: the elAttr keys with the prefix css:
IsCss(key) == key \in {"css:color"}

\* String.slice, the static generic that only some engines define, is what
\* _updateView strips the css: prefix with; "stylegen" runs on such an engine
StringGenerics == scenario = "stylegen"

\* defaultBinders.disabled: $el.prop('disabled', value), a getter for undefined
DisabledBinder(d, e, value) ==
    IF value = Undef THEN d ELSE [d EXCEPT ![e].disabled = Truthy(value)]

\* defaultBinders.hidden: $el[value ? 'hide' : 'show']()
HiddenBinder(d, e, value) == [d EXCEPT ![e].hidden = Truthy(value)]

\* !value
Not(value) == IF Truthy(value) THEN "#false" ELSE "#true"

\* $el.attr({name: value}): undefined leaves the attribute as it is
AttrWrite(d, e, key, value) ==
    IF value = Undef \/ key # "title" THEN d ELSE [d EXCEPT ![e].title = ToStr(value)]

\* one elAttr key applied to one element: a registered binder, called with
\* the registry as `this`, or else the attr / css fallback.  Neither revision
\* reaches the style property: _setView passes the key with its css: prefix
\* to $el.css, _updateView a key that partialRight turned into undefined.
ApplyBinder(d, e, key, value, prevValue) ==
    CASE key = "value" -> ValueBinder(d, e, value)
      [] key \in {"text", "html"} -> TextBinder(d, e, value)
      [] key = "class" -> ClassBinder(d, e, value, prevValue)
      [] key = "disabled" -> DisabledBinder(d, e, value)
      [] key = "hidden" -> HiddenBinder(d, e, value)
      [] key = "enabled" -> DisabledBinder(d, e, Not(value))
      [] key = "displayed" -> HiddenBinder(d, e, Not(value))
      [] IsCss(key) -> d
      [] OTHER -> AttrWrite(d, e, key, value)

\* element e written, leaving the DOM as d
WriteDom(s, e, d) == JqAfterWrite(Touch([s EXCEPT !.dom = d], e), e)

\* a work item w = [e, key, v, pv]: the binder call on one element; e = NoEl
\* is the element loop over a boundEls that was never resolved
\* In revision C the css group's key converter calls String.slice.apply, a
\* TypeError where String.slice is undefined, and a binder is called through
\* binder.apply(binder, ...): inside an inverted binder `this` is the binder
\* function, this[origin] is undefined and this[origin].apply throws.
WriteEl(s, w) ==
    IF w.e = NoEl THEN Throw(s, TypeError)
    ELSE IF rev = "C" /\ IsCss(w.key) /\ ~StringGenerics THEN Throw(s, TypeError)
    ELSE IF rev = "C" /\ w.key \in Inverted THEN Throw(s, TypeError)
    ELSE WriteDom(s, w.e, ApplyBinder(s.dom, w.e, w.key, w.v, w.pv))

RECURSIVE ApplyWrites(_, _)
ApplyWrites(s, work) ==
    IF work = <<>> \/ s.exc # "none" THEN s
    ELSE ApplyWrites(WriteEl(s, Head(work)), Tail(work))

-----------------------------------------------------------------------------
(* Model -> view, revision C.                                              *)

\* _getConverter + _getConvertedValue: attributeFilter(bindingFilter(value)).
\* elAttr = Undef stands for the null the view->model direction passes, which
\* the code replaces by 'value'; a binding whose elAttr lacks that key has no
\* attributeFilter, and reading attributeFilter[converterName] throws.
\* _getConverter composed the other way round: bindingFilter(attributeFilter(value))
C_getConvertedValueIn_bindingOuter(defaults, direction, binding, elAttr, value) ==
    LET key == IF elAttr = Undef THEN "value" ELSE elAttr
        idx == {i \in 1..Len(binding.elAttr) : binding.elAttr[i].key = key}
    IN  IF idx = {} THEN TypeError
        ELSE LET attributeFilter == binding.elAttr[CHOOSE i \in idx : TRUE].filter
                 inner == IF attributeFilter = "true" THEN value
                          ELSE ApplyFilter(attributeFilter, direction, value)
             IN  IF Thrown(inner) THEN inner
                 ELSE ApplyFilter(binding.filters, direction, inner)

\* defaults = binder._options.defaults.filters
C_getConvertedValueIn(defaults, direction, binding, elAttr, value) ==
    LET key == IF elAttr = Undef THEN "value" ELSE elAttr
        idx == {i \in 1..Len(binding.elAttr) : binding.elAttr[i].key = key}
        bindingFilter == IF binding.filters # Undef THEN binding.filters
                         ELSE IF defaults # Undef THEN defaults
                         ELSE "identity"
    IN  IF idx = {} THEN TypeError
        ELSE LET attributeFilter == binding.elAttr[CHOOSE i \in idx : TRUE].filter
                 inner == ApplyFilter(bindingFilter, direction, value)
             IN  IF Thrown(inner) THEN inner
                 ELSE IF attributeFilter = "true" THEN inner
                 ELSE ApplyFilter(attributeFilter, direction, inner)

\* the same on a binder without default filters
C_getConvertedValue(direction, binding, elAttr, value) ==
    C_getConvertedValueIn(Undef, direction, binding, elAttr, value)

\* model.pick(keys) read positionally: the values of the keys that are present
C_pickValues(s, keys) ==
    LET present == SelectSeq(keys, LAMBDA k : s.attributes[k] # Absent)
    IN  [i \in 1..Len(present) |-> s.attributes[present[i]]]

\* _fetchViewValuesFromModel: _.object(keys, _.zip(current values, previous
\* values)); entry i is <<current, previous>> for keys[i]
C_fetchViewValuesFromModel(s, keys) ==
    LET cur == IF s.options.forceGet
               THEN [i \in 1..Len(keys) |-> Get(s, keys[i])]
               ELSE C_pickValues(s, keys)
    IN  [i \in 1..Len(keys) |->
            << IF i <= Len(cur) THEN cur[i] ELSE Undef, Previous(s, keys[i]) >>]

\* values[binding.parent.modelAttr]
C_valuesFor(keys, values, a) ==
    values[CHOOSE i \in 1..Len(keys) :
              keys[i] = a /\ \A j \in (i+1)..Len(keys) : keys[j] # a]

\* the order in which _updateView works through a binding's elAttr keys: the
\* keys that name no binder, grouped (the css: keys, whose key conversion
\* precedes every write, put first), then the keys that name a binder
C_updateOrder(elAttr) ==
    SelectSeq(elAttr, LAMBDA x : x.key \notin Binders /\ IsCss(x.key))
    \o SelectSeq(elAttr, LAMBDA x : x.key \notin Binders /\ ~IsCss(x.key))
    \o SelectSeq(elAttr, LAMBDA x : x.key \in Binders)

\* _composeViewAttributesForBinding followed by the element loop of
\* _updateView: the writes of one binding, key by key, element by element;
\* toView passes the binding with its keys in the order of _updateView
C_composeViewAttributesForBinding(defaults, binding, vals) ==
    LET n == IF binding.boundEls = <<>> THEN 1 ELSE Len(binding.boundEls)
    IN  [t \in 1..(Len(binding.elAttr) * n) |->
            LET k == binding.elAttr[((t - 1) \div n) + 1].key
            IN  [e |-> IF binding.boundEls = <<>> THEN NoEl
                       ELSE binding.boundEls[((t - 1) % n) + 1],
                 key |-> k,
                 v |-> C_getConvertedValueIn(defaults, "toView", binding, k, vals[1]),
                 pv |-> C_getConvertedValueIn(defaults, "toView", binding, k, vals[2])]]

\* _getBindingsForAttributes
C_getBindingsForAttributes(g, keys) ==
    IF Len(keys) = 0 THEN AllBindings(g)
    ELSE Flatten([i \in 1..Len(PickBindings(g, keys)) |->
                    PickBindings(g, keys)[i].bindings])

\* toView: every conversion is computed before the first element is written
C_toView(s, names, noArgs) ==
    LET keys == IF noArgs THEN AttrKeys(s.bindings) ELSE names
        bs == C_getBindingsForAttributes(s.bindings, keys)
        values == C_fetchViewValuesFromModel(s, keys)
        work == Flatten([i \in 1..Len(bs) |->
                    C_composeViewAttributesForBinding(s.options.defaultFilters,
                        [bs[i] EXCEPT !.elAttr = C_updateOrder(@)],
                        C_valuesFor(keys, values, bs[i].modelAttr))])
        bad == {i \in 1..Len(work) : Thrown(work[i].v) \/ Thrown(work[i].pv)}
    IN  IF s.model = NoModel THEN Throw(s, TypeError)
        ELSE IF bad # {}
        THEN LET i == CHOOSE j \in bad : \A k \in bad : j <= k
             IN  Throw(s, IF Thrown(work[i].v) THEN work[i].v ELSE work[i].pv)
        ELSE ApplyWrites(s, work)

\* a model listener that writes nothing
C_onModelChange_deaf(s) == s

\* _onModelChange
C_onModelChange(s) == C_toView(s, s.changed, FALSE)

-----------------------------------------------------------------------------
(* Model -> view, revision A.  An element binding's elAttr is a single     *)
(* name, or missing (<<>>), which means the element's value.               *)

\* _getConvertedValue: the binding's converter, both directions
A_getConvertedValue(direction, elBinding, value) ==
    ApplyFilter(elBinding.filters, direction, value)

\* _setElAttribute (the class case as jQuery >= 1.9 treats a non-string
\* argument of removeClass: nothing is removed)
A_setElAttribute(s, elBinding, e, convertedValue) ==
    LET key == elBinding.elAttr[1].key
        previousValue == Previous(s, elBinding.modelAttr)
        currentValue == Get(s, elBinding.modelAttr)
        pc == A_getConvertedValue("toView", elBinding, previousValue)
    IN  CASE key = "text" -> WriteDom(s, e, TextBinder(s.dom, e, convertedValue))
          [] key = "class" ->
                IF (previousValue # Undef \/ currentValue # Undef) /\ Thrown(pc)
                THEN Throw(s, pc)
                ELSE WriteDom(s, e,
                        ClassBinder(s.dom, e, convertedValue,
                            IF previousValue # Undef \/ currentValue # Undef
                            THEN pc ELSE Undef))
          [] OTHER -> s

\* _setEl
A_setEl(s, elBinding, e, convertedValue) ==
    IF elBinding.elAttr # <<>>
    THEN A_setElAttribute(s, elBinding, e, convertedValue)
    ELSE WriteDom(s, e, ValueBinder(s.dom, e, convertedValue))

\* the re-entrancy test of _copyModelToView
A_skip(s, elBinding, e) == s.bindingSetting[elBinding.id] /\ s.elSetting[e]

\* body of the element loop of _copyModelToView; w = [b, e]
A_copyModelToViewEl(s, w) ==
    IF A_skip(s, w.b, w.e) THEN s
    ELSE LET convertedValue ==
                A_getConvertedValue("toView", w.b, Get(s, w.b.modelAttr))
         IN  IF Thrown(convertedValue) THEN Throw(s, convertedValue)
             ELSE A_setEl(s, w.b, w.e, convertedValue)

RECURSIVE A_copyLoop(_, _)
A_copyLoop(s, work) ==
    IF work = <<>> \/ s.exc # "none" THEN s
    ELSE A_copyLoop(A_copyModelToViewEl(s, Head(work)), Tail(work))

\* the <<binding, element>> pairs of a sequence of element bindings
ElementPairs(bs) ==
    Flatten([i \in 1..Len(bs) |->
        [j \in 1..Len(bs[i].boundEls) |-> [b |-> bs[i], e |-> bs[i].boundEls[j]]]])

\* _copyModelToView
A_copyModelToView(s, attrBinding) ==
    A_copyLoop(s, ElementPairs(attrBinding.bindings))

\* the name filter dropped: every attribute binding is selected
SelectedAttrBindings_all(g, names, noArgs) == g

\* the attribute bindings of the graph whose name is among names, graph order
SelectedAttrBindings(g, names, noArgs) ==
    SelectSeq(g, LAMBDA ab : noArgs \/ ab.modelAttr \in Range(names))

\* copyModelAttributesToView
A_copyModelAttributesToView(s, names, noArgs) ==
    LET sel == SelectedAttrBindings(s.bindings, names, noArgs)
    IN  A_copyLoop(s, ElementPairs(Flatten([i \in 1..Len(sel) |-> sel[i].bindings])))

\* _onModelChange: _.pick(bindings, changed keys), each -> _copyModelToView
A_onModelChange(s) ==
    LET sel == PickBindings(s.bindings, s.changed)
    IN  A_copyLoop(s, ElementPairs(Flatten([i \in 1..Len(sel) |-> sel[i].bindings])))

-----------------------------------------------------------------------------
(* Model -> view, revision B.                                              *)

\* _getConverter: the declared filter, or none ("identity" = none declared)
B_getConverter(direction, elBinding) == elBinding.filters

\* _getConvertedValue
B_getConvertedValue(direction, elBinding, value) ==
    ApplyFilter(B_getConverter(direction, elBinding), direction, value)

\* _applyConverter with an elAttr entry: true passes the value through
B_applyConverter(filter, direction, value) ==
    IF filter = "true" THEN value ELSE ApplyFilter(filter, direction, value)

\* _setView: the binders of one binding applied to one element
B_setView(s, elBinding, e) ==
    LET modelAttrValue ==
            B_getConvertedValue("toView", elBinding, Get(s, elBinding.modelAttr))
        prevModelAttrValue ==
            B_getConvertedValue("toView", elBinding, Previous(s, elBinding.modelAttr))
        work == [k \in 1..Len(elBinding.elAttr) |->
                    [e |-> e, key |-> elBinding.elAttr[k].key,
                     v |-> B_applyConverter(elBinding.elAttr[k].filter, "toView",
                                            modelAttrValue),
                     pv |-> B_applyConverter(elBinding.elAttr[k].filter, "toView",
                                             prevModelAttrValue)]]
    IN  IF Thrown(modelAttrValue) THEN Throw(s, modelAttrValue)
        ELSE IF Thrown(prevModelAttrValue) THEN Throw(s, prevModelAttrValue)
        ELSE ApplyWrites(s, work)

\* toView's per-binding step.  boundEls.map(...) returns, flattened by
\* jQuery.map, <<binding, el, binding, el, ...>> for the elements not being
\* set; _setView is applied to that list, so it receives the first pair - or
\* nothing at all when every element was skipped, and then it throws on
\* reading elBinding.elAttr.
B_toViewBinding(s, elBinding) ==
    LET kept == SelectSeq(elBinding.boundEls,
                    LAMBDA e : ~(s.bindingSetting[elBinding.id] /\ s.elSetting[e]))
    IN  IF kept = <<>> THEN Throw(s, TypeError)
        ELSE B_setView(s, elBinding, kept[1])

RECURSIVE B_toViewLoop(_, _)
B_toViewLoop(s, bs) ==
    IF bs = <<>> \/ s.exc # "none" THEN s
    ELSE B_toViewLoop(B_toViewBinding(s, Head(bs)), Tail(bs))

\* toView
B_toView(s, names, noArgs) ==
    LET sel == IF noArgs THEN s.bindings ELSE PickBindings(s.bindings, names)
    IN  B_toViewLoop(s, Flatten([i \in 1..Len(sel) |-> sel[i].bindings]))

\* _onModelChange
B_onModelChange(s) == B_toView(s, s.changed, FALSE)

-----------------------------------------------------------------------------
(* The model (Backbone.Model as the engine uses it).                       *)

\* the binder's change listener, run synchronously inside model.set
OnModelChange(s) ==
    LET s1 == [s EXCEPT !.depth = s.depth + 1,
                        !.maxDepth = IF s.depth + 1 > @ THEN s.depth + 1 ELSE @,
                        !.notifying = TRUE]
        r == CASE rev = "A" -> A_onModelChange(s1)
               [] rev = "B" -> B_onModelChange(s1)
               [] OTHER -> C_onModelChange(s1)
    IN  [r EXCEPT !.depth = s.depth, !.notifying = s.notifying]

\* toView([]) with no values fetched: every binding is selected and its
\* binders are called with no value
StaleWork(g) ==
    Flatten([i \in 1..Len(AllBindings(g)) |->
        LET b == AllBindings(g)[i]
            n == Len(b.boundEls)
        IN  [t \in 1..(Len(b.elAttr) * n) |->
                [e |-> b.boundEls[((t - 1) % n) + 1],
                 key |-> b.elAttr[((t - 1) \div n) + 1].key,
                 v |-> Undef, pv |-> Undef]]])

\* 'change' reaches the binder's listener, which reads this._model: the
\* model that fired when the listener sits on this._model; for a listener
\* left on another model, this._model is undefined or is a model whose
\* changedAttributes() is false
Notify(s) ==
    CASE s.model = s.focus -> OnModelChange(s)
      [] s.model = NoModel -> Throw(s, TypeError)
      [] OTHER -> ApplyWrites(s, StaleWork(s.bindings))

RECURSIVE SetPairs(_, _)
SetPairs(attrs, pairs) ==
    IF pairs = <<>> THEN attrs
    ELSE SetPairs([attrs EXCEPT ![Head(pairs)[1]] = Head(pairs)[2]], Tail(pairs))

\* model.set(attrs, options), pairs = <<attribute, value>> in key order:
\* snapshot the previous attributes, assign, and when something changed fire
\* 'change' with changedAttributes() = the changed keys
ModelSet(s, pairs) ==
    LET new == SetPairs(s.attributes, pairs)
        keys == [i \in 1..Len(pairs) |-> pairs[i][1]]
        changedKeys == SelectSeq(keys, LAMBDA a : new[a] # s.attributes[a])
        s1 == [s EXCEPT !.previousAttributes = s.attributes,
                        !.attributes = new,
                        !.changed = changedKeys]
    IN  IF changedKeys # <<>> /\ s.focus \in s.modelListening
        THEN Notify(s1) ELSE s1

\* a model.set made by the engine (recorded in modelWrites), which passes
\* this._options.modelSetOptions (recorded in setOptions)
EngineSet(s, pairs) ==
    ModelSet([s EXCEPT !.modelWrites = @ \o pairs,
                       !.setOptions = @ \cup {s.options.modelSetOptions}], pairs)

-----------------------------------------------------------------------------
(* View -> model.                                                          *)

\* _getElementValue (B, C) / _getElValue (A) without a `read` option
GetElementValue(d, e) ==
    IF TypeAttr(e) = "checkbox"
    THEN (IF d[e].checked THEN "#true" ELSE "#false")
    ELSE JqVal(d, e)

\* _isBindingReadable / _isBindingEditable (B, C); _isBindingUserEditable (A),
\* where a missing elAttr is the value
IsBindingReadable(elBinding) ==
    \/ elBinding.read # Undef
    \/ IF rev = "A"
       THEN elBinding.elAttr = <<>> \/ elBinding.elAttr[1].key \in {"text", "html"}
       ELSE \E i \in 1..Len(elBinding.elAttr) :
                elBinding.elAttr[i].key \in {"value", "text", "html"}

\* _isElementEditable / _isElUserEditable (no element is contenteditable)
IsElementEditable(e) == IsFormControl(e)

\* _isBindingRadioGroup
IsBindingRadioGroup(elBinding) == \A e \in Range(elBinding.boundEls) : IsRadio(e)

\* unbind that clears the graph and this._model and detaches nothing
Unbound_keep(s) == [s EXCEPT !.model = NoModel, !.bindings = <<>>]

\* unbind that detaches the listeners and keeps the graph
Unbound_graph(s) ==
    [s EXCEPT !.modelListening = @ \ {s.model}, !.model = NoModel,
              !.rootListening = @ \ {s.rootEl}]

\* unbind without the guards on this._model and this._rootEl
Unbound_unguarded(s) ==
    IF s.model = NoModel \/ s.rootEl = NoRoot THEN Throw(s, TypeError)
    ELSE [s EXCEPT !.modelListening = @ \ {s.model}, !.model = NoModel,
                   !.rootListening = @ \ {s.rootEl}, !.bindings = <<>>]

\* an element binding whose selector matched nothing: its boundEls was
\* never assigned
BadBinding(g) == \E b \in Range(AllBindings(g)) : b.boundEls = <<>>

\* the element looked up by its name attribute, the bound elements' selector
\* run again, in place of the test against the resolved boundEls
GetBindingsForElement_byName(g, e) ==
    SelectSeq(AllBindings(g),
              LAMBDA b : \E x \in Range(b.boundEls) :
                            NameAttr(x) # Undef /\ NameAttr(x) = NameAttr(e))

\* _getBindingsForElement / _getElBindings
GetBindingsForElement(g, e) ==
    SelectSeq(AllBindings(g), LAMBDA b : e \in Range(b.boundEls))

---- \* revision C

\* _fetchModelValueFromView
C_fetchModelValueFromView(s, binding, e) ==
    C_getConvertedValueIn(s.options.defaultFilters, "toModel", binding, Undef,
                          GetElementValue(s.dom, e))

\* _.object(pairs): one entry per key, at the key's first place, holding the
\* key's last value
ObjectOf(pairs) ==
    LET firsts == SelectSeq([i \in 1..Len(pairs) |-> i],
                    LAMBDA i : \A j \in 1..(i - 1) : pairs[j][1] # pairs[i][1])
    IN  [k \in 1..Len(firsts) |->
            LET lastIdx == CHOOSE j \in 1..Len(pairs) :
                    /\ pairs[j][1] = pairs[firsts[k]][1]
                    /\ \A m \in (j + 1)..Len(pairs) : pairs[m][1] # pairs[j][1]
            IN  <<pairs[firsts[k]][1], pairs[lastIdx][2]>>]

\* toModel($element) without the comparison of the values of one attribute
C_toModel_lastWins(s, e) ==
    LET bs == GetBindingsForElement(s.bindings, e)
        values == [i \in 1..Len(bs) |->
                      <<bs[i].modelAttr, C_fetchModelValueFromView(s, bs[i], e)>>]
        bad == {i \in 1..Len(values) : Thrown(values[i][2])}
    IN  IF BadBinding(s.bindings) THEN Throw(s, TypeError)
        ELSE IF bad # {}
        THEN Throw(s, values[CHOOSE i \in bad : \A k \in bad : i <= k][2])
        ELSE IF s.model = NoModel THEN Throw(s, TypeError)
        ELSE EngineSet(s, ObjectOf(values))

\* toModel($element)
C_toModel(s, e) ==
    LET bs == GetBindingsForElement(s.bindings, e)
        values == [i \in 1..Len(bs) |->
                      <<bs[i].modelAttr, C_fetchModelValueFromView(s, bs[i], e)>>]
        bad == {i \in 1..Len(values) : Thrown(values[i][2])}
        conflict == \E i, j \in 1..Len(values) :
                        values[i][1] = values[j][1] /\ values[i][2] # values[j][2]
        s1 == IF conflict THEN throwException(s, "ConfigError") ELSE s
    IN  IF BadBinding(s.bindings) THEN Throw(s, TypeError)
        ELSE IF bad # {}
        THEN Throw(s, values[CHOOSE i \in bad : \A k \in bad : i <= k][2])
        ELSE IF s1.exc # "none" THEN s1
        ELSE IF s.model = NoModel THEN Throw(s1, TypeError)
        ELSE EngineSet(s1, ObjectOf(values))

\* `el._isSetting = false` at the end of a view handler: reached only when
\* nothing before it threw
ClearElSetting(s, e) ==
    IF s.exc # "none" THEN s ELSE [s EXCEPT !.elSetting[e] = FALSE]

\* _onViewChange
C_onViewChange(s, e) ==
    IF s.elSetting[e] THEN s
    ELSE ClearElSetting(C_toModel([s EXCEPT !.elSetting[e] = TRUE], e), e)

---- \* revision A

\* _setModel
A_setModel(s, elBinding, e) ==
    LET elVal == A_getConvertedValue("toModel", elBinding, GetElementValue(s.dom, e))
    IN  IF Thrown(elVal) THEN Throw(s, elVal)
        ELSE EngineSet(s, << <<elBinding.modelAttr, elVal>> >>)

\* the tail of _copyViewToModel: resync the element when the view->model
\* conversion changed the value read (model.set returns the model: truthy)
A_resync(s, elBinding, e) ==
    LET elVal == GetElementValue(s.dom, e)
        converted == A_getConvertedValue("toModel", elBinding, elVal)
        isViewValueConverted == elVal # converted
        convertedValue ==
            A_getConvertedValue("toView", elBinding, Get(s, elBinding.modelAttr))
    IN  IF Thrown(converted) THEN Throw(s, converted)
        ELSE IF isViewValueConverted /\ elBinding.forceSync
        THEN (IF Thrown(convertedValue) THEN Throw(s, convertedValue)
              ELSE A_setEl(s, elBinding, e, convertedValue))
        ELSE s

\* _copyViewToModel after its _setModel call: both flags cleared, then the
\* resync
A_afterSetModel(s, elBinding, e) ==
    IF s.exc # "none" THEN s
    ELSE A_resync([s EXCEPT !.elSetting[e] = FALSE,
                            !.bindingSetting[elBinding.id] = FALSE], elBinding, e)

\* _copyViewToModel
A_copyViewToModel(s, elBinding, e) ==
    IF s.elSetting[e] THEN s
    ELSE A_afterSetModel(
            A_setModel([s EXCEPT !.elSetting[e] = TRUE,
                                 !.bindingSetting[elBinding.id] = TRUE],
                       elBinding, e),
            elBinding, e)

RECURSIVE A_copyViewLoop(_, _)
A_copyViewLoop(s, work) ==
    IF work = <<>> \/ s.exc # "none" THEN s
    ELSE A_copyViewLoop(A_copyViewToModel(s, Head(work).b, Head(work).e), Tail(work))

\* _onElChanged
A_onElChanged(s, e) ==
    LET bs == SelectSeq(GetBindingsForElement(s.bindings, e), IsBindingReadable)
    IN  A_copyViewLoop(s, [i \in 1..Len(bs) |-> [b |-> bs[i], e |-> e]])

\* boundEls.filter('input:radio:checked')
CheckedRadios(d, elBinding) ==
    SelectSeq(elBinding.boundEls, LAMBDA e : IsRadio(e) /\ d[e].checked)

\* copyViewValuesToModel, one element binding
A_copyViewValuesBinding(s, elBinding) ==
    LET els == IF ~IsBindingReadable(elBinding) THEN <<>>
               ELSE IF IsBindingRadioGroup(elBinding)
               THEN SelectSeq(CheckedRadios(s.dom, elBinding),
                        LAMBDA e : e = CheckedRadios(s.dom, elBinding)[1])
               ELSE SelectSeq(elBinding.boundEls,
                        LAMBDA e : IsElementEditable(e) \/ elBinding.read # Undef)
    IN  A_copyViewLoop(s, [i \in 1..Len(els) |-> [b |-> elBinding, e |-> els[i]]])

RECURSIVE A_copyViewValuesLoop(_, _)
A_copyViewValuesLoop(s, bs) ==
    IF bs = <<>> \/ s.exc # "none" THEN s
    ELSE A_copyViewValuesLoop(A_copyViewValuesBinding(s, Head(bs)), Tail(bs))

\* copyViewValuesToModel
A_copyViewValuesToModel(s, names, noArgs) ==
    LET sel == SelectedAttrBindings(s.bindings, names, noArgs)
    IN  A_copyViewValuesLoop(s, Flatten([i \in 1..Len(sel) |-> sel[i].bindings]))

---- \* revision B

\* _setModel
B_setModel(s, elBinding, e) ==
    LET elVal == B_getConvertedValue("toModel", elBinding, GetElementValue(s.dom, e))
    IN  IF Thrown(elVal) THEN Throw(s, elVal)
        ELSE EngineSet(s, << <<elBinding.modelAttr, elVal>> >>)

\* `elBinding._isSetting = false` at the end of _copyViewToModel
B_clearBindingSetting(s, elBinding) ==
    IF s.exc # "none" THEN s
    ELSE [s EXCEPT !.bindingSetting[elBinding.id] = FALSE]

\* _copyViewToModel after its _setModel call: the forced resync
B_afterSetModel(s, elBinding, e) ==
    IF s.exc # "none" THEN s
    ELSE IF elBinding.forceSync /\ B_getConverter("toModel", elBinding) # "identity"
    THEN B_setView(s, elBinding, e)
    ELSE s

\* _copyViewToModel (model.set returns the model: truthy)
B_copyViewToModel(s, elBinding, e) ==
    B_clearBindingSetting(
        B_afterSetModel(
            B_setModel([s EXCEPT !.bindingSetting[elBinding.id] = TRUE], elBinding, e),
            elBinding, e),
        elBinding)

RECURSIVE B_copyViewLoop(_, _, _)
B_copyViewLoop(s, bs, e) ==
    IF bs = <<>> \/ s.exc # "none" THEN s
    ELSE B_copyViewLoop(B_copyViewToModel(s, Head(bs), e), Tail(bs), e)

\* _onViewChange
B_onViewChange(s, e) ==
    IF s.elSetting[e] THEN s
    ELSE ClearElSetting(
            B_copyViewLoop([s EXCEPT !.elSetting[e] = TRUE],
                SelectSeq(GetBindingsForElement(s.bindings, e), IsBindingReadable),
                e),
            e)

\* toModel: _.pluck(..., 'elementBindings') is not flattened, so
\* _isBindingReadable receives the array of an attribute's element bindings
\* and evaluates _.keys(undefined): a TypeError, or [] in an underscore that
\* tolerates it, which rejects every entry.  No binding is ever copied.
B_toModel(s, names, noArgs) ==
    LET sel == IF noArgs THEN s.bindings ELSE PickBindings(s.bindings, names)
    IN  IF sel # <<>> /\ s.keysThrows THEN Throw(s, TypeError) ELSE s

---- \* the delegated DOM listener

\* the view-event handler of the revision in use, entered for a change event
\* whose target is e
OnViewChange(s, e) ==
    LET s1 == [s EXCEPT !.depth = s.depth + 1,
                        !.maxDepth = IF s.depth + 1 > @ THEN s.depth + 1 ELSE @,
                        !.viewEl = e,
                        !.notifying = FALSE]
        r == CASE rev = "A" -> A_onElChanged(s1, e)
               [] rev = "B" -> B_onViewChange(s1, e)
               [] OTHER -> C_onViewChange(s1, e)
    IN  [r EXCEPT !.depth = s.depth, !.viewEl = s.viewEl, !.notifying = s.notifying]

-----------------------------------------------------------------------------
(* Raw declarations of one attribute, as the application writes them: a    *)
(* selector string ("s:..."), a binding object ("o:..."), or an array of   *)
(* those.  A declaration is the sequence of its tokens, an array being     *)
(* bracketed by "[" and "]"; <<>> is the attribute not being declared.     *)

IsArray(d) == d # <<>> /\ d[1] = "["

\* the elements of an array
Elements(d) == SubSeq(d, 2, Len(d) - 1)

\* [x].concat(y): an array argument of concat contributes its elements
Concat(x, y) == <<"[">> \o x \o (IF IsArray(y) THEN Elements(y) ELSE y) \o <<"]">>

\* x.push(y): y becomes one element, array or not
Push(x, y) == <<"[">> \o Elements(x) \o y \o <<"]">>

\* mergeBindings (C), for one attribute of obj and source
C_mergeBindings(existing, toMerge) ==
    CASE toMerge = <<>> -> existing
      [] existing = <<>> -> toMerge
      [] IsArray(existing) -> Push(existing, toMerge)
      [] OTHER -> Concat(existing, toMerge)

\* mergeBindings (B): the concatenation is assigned to the local variable only
B_mergeBindings(existing, toMerge) ==
    CASE toMerge = <<>> -> existing
      [] existing = <<>> -> toMerge
      [] IsArray(existing) -> Push(existing, toMerge)
      [] OTHER -> existing

\* the declarations of one attribute in the two sets handed to mergeBindings
FirstDecls ==
    { <<>>, <<"s:a">>, <<"o:a">>, <<"[", "s:a", "o:b", "]">> }

SecondDecls ==
    { <<>>, <<"s:c">>, <<"o:c">>, <<"[", "s:c", "o:d", "]">> }

-----------------------------------------------------------------------------
(* CollectionConverter: the models of a Backbone collection, each with its *)
(* client id and, once saved, its id.                                      *)

Items == {"item1", "item2", "item3"}

\* item.id; item3 is a new model, which has none
ItemId(item) ==
    CASE item = "item1" -> "#7" [] item = "item2" -> "#0" [] OTHER -> Undef

\* item.cid
ItemCid(item) ==
    CASE item = "item1" -> "c1" [] item = "item2" -> "c2" [] OTHER -> "c3"

\* the collections a converter is created for
Collections == SUBSET Items \ {{}}

\* collection.get(value): the model whose id or cid is value
CollectionGet(collection, value) ==
    IF value \in {Undef, "#null"} THEN Undef
    ELSE IF \E item \in collection : value \in {ItemId(item), ItemCid(item)}
    THEN CHOOSE item \in collection : value \in {ItemId(item), ItemCid(item)}
    ELSE Undef

\* convert with the lookup by the client id
convert_byCid(collection, direction, value) ==
    IF direction = "ModelToView"
    THEN (IF value \in Items THEN ItemCid(value) ELSE Undef)
    ELSE CollectionGet(collection, value)

\* CollectionConverter.prototype.convert(direction, value); an attribute
\* that holds a model is truthy
convert(collection, direction, value) ==
    IF direction = "ModelToView"
    THEN (IF value \in Items THEN ItemId(value) ELSE Undef)
    ELSE CollectionGet(collection, value)

\* what convert is given: a model attribute (a model, null or nothing) in the
\* model->view direction, an element value in the other
ConvertInputs(direction) ==
    IF direction = "ModelToView" THEN Items \cup {Undef, "#null"}
    ELSE {"#7", "#0", "#9", "c3", Undef}

-----------------------------------------------------------------------------
(* bind / unbind.                                                          *)

BindingIds == (1..2) \X (1..2)

NoFlags == [id \in BindingIds |-> FALSE]

\* createSelector(attrValue) for the marker attribute 'name'
createSelector(attrValue) ==
    CASE attrValue = "name" -> "[name=name]"
      [] attrValue = "color" -> "[name=color]"
      [] OTHER -> "[name]"

\* $(createSelector(), rootEl): the descendants of the root that carry the
\* marker attribute, in document order
Marked(r) ==
    SelectSeq(DocOrder, LAMBDA e : RootOf(e) = r /\ NameAttr(e) # Undef
                                   /\ e \notin detached)

\* the keys of _.groupBy(elements, getBoundAttr): the distinct marker values,
\* each at its first occurrence
MarkerValues(els) ==
    LET firsts == SelectSeq([i \in 1..Len(els) |-> i],
                    LAMBDA i : \A j \in 1..(i - 1) : NameAttr(els[j]) # NameAttr(els[i]))
    IN  [k \in 1..Len(firsts) |-> NameAttr(els[firsts[k]])]

\* discovery over the whole document instead of the root's subtree
createDefaultBindings_document(r) ==
    LET all == SelectSeq(DocOrder, LAMBDA e : NameAttr(e) # Undef)
    IN  [i \in 1..Len(MarkerValues(all)) |->
            [modelAttr |-> MarkerValues(all)[i],
             raw |-> << [selector |-> createSelector(MarkerValues(all)[i]),
                         elAttr |-> <<>>, filters |-> "identity",
                         forceSync |-> TRUE, read |-> Undef,
                         boundEls |-> SelectSeq(all,
                            LAMBDA e : NameAttr(e) = MarkerValues(all)[i])] >>]]

\* createDefaultBindings(rootEl, {boundAttr: 'name'}): one declaration per
\* marker value, an object that carries its boundEls
createDefaultBindings(r) ==
    [i \in 1..Len(MarkerValues(Marked(r))) |->
        LET attrName == MarkerValues(Marked(r))[i]
        IN  [modelAttr |-> attrName,
             raw |-> << [selector |-> createSelector(attrName), elAttr |-> <<>>,
                         filters |-> "identity", forceSync |-> TRUE, read |-> Undef,
                         boundEls |-> SelectSeq(Marked(r),
                                        LAMBDA e : NameAttr(e) = attrName)] >>]]

\* composeElementBinding (C): the declared element binding over the defaults
\* {filters: {toView: _.identity, toModel: _.identity}, forceSync: true}, so
\* that an element binding declared without filters holds the identity.
\* There is no check of the declaration's type: $.extend copies nothing from
\* a number or a boolean, which leaves an element binding without selector
C_composeElementBinding(raw) ==
    IF "primitive" \in DOMAIN raw \/ "config" \in DOMAIN raw
    THEN EB(Undef, <<>>, "identity")
    ELSE [raw EXCEPT !.filters = IF @ = Undef THEN "identity" ELSE @]

\* utils.ensureArray and utils.resultMap on a declared elAttr d: <<name>> is
\* the string name, <<"[", n1, ..., nk, "]">> the array of the names
ensureArray(d) == IF IsArray(d) THEN Elements(d) ELSE d

resultMap(d, mapValue) ==
    IF IsArray(d) THEN [k \in 1..Len(Elements(d)) |-> mapValue] ELSE <<mapValue>>

\* a declared elAttr that is an object {name: filters, ...}, written
\* <<"{", name, filters, ..., "}">>
IsMapping(d) == d # <<>> /\ d[1] = "{"

\* the keys of an array: "0", "1", ...
Index(k) == ToString(k - 1)

\* what composeElementBinding (C) and _initAttrBindings (B) leave in elAttr,
\* as the sequence of the mapping's entries: a declared elAttr that _.isObject
\* accepts - an array is one - is kept as it is, and only a string or a
\* missing one is made into {name: true}; an object is kept as well
elAttrOf(d) ==
    IF IsMapping(d)
    THEN [k \in 1..((Len(d) - 2) \div 2) |-> [key |-> d[2 * k], filter |-> d[2 * k + 1]]]
    ELSE IF IsArray(d)
    THEN [k \in 1..Len(Elements(d)) |-> [key |-> Index(k), filter |-> Elements(d)[k]]]
    ELSE [k \in 1..Len(ensureArray(IF d = <<>> THEN <<"value">> ELSE d)) |->
            [key |-> ensureArray(IF d = <<>> THEN <<"value">> ELSE d)[k],
             filter |-> resultMap(d, "true")[k]]]

\* the elAttr declarations composeElementBinding is exercised with
ElAttrDecls ==
    { <<>>, <<"text">>, <<"class">>, <<"[", "text", "]">>,
      <<"[", "text", "class", "]">> }

\* _initAttrBindings + _initElBindings: the binding graph of the declarations.
\* B and C default a missing elAttr to {value: true}; A keeps it missing.
InitBindings(decls, r) ==
    [i \in 1..Len(decls) |->
        [modelAttr |-> decls[i].modelAttr,
         bindings |->
            [j \in 1..Len(decls[i].raw) |->
                LET raw == IF rev = "C" THEN C_composeElementBinding(decls[i].raw[j])
                           ELSE decls[i].raw[j]
                IN  [id |-> <<i, j>>,
                     modelAttr |-> decls[i].modelAttr,
                     boundEls |-> IF "boundEls" \in DOMAIN raw THEN raw.boundEls
                                  ELSE ResolveIn(r, raw.selector),
                     elAttr |->
                        IF rev # "A" THEN elAttrOf(raw.elAttr)
                        ELSE [k \in 1..Len(raw.elAttr) |->
                                [key |-> raw.elAttr[k], filter |-> "true"]],
                     filters |-> raw.filters,
                     forceSync |-> raw.forceSync,
                     read |-> raw.read]]]]

\* unbind
Unbound(s) ==
    [s EXCEPT !.modelListening = @ \ {s.model}, !.model = NoModel,
              !.rootListening = @ \ {s.rootEl}, !.bindings = <<>>]

\* the first two statements of bind: a missing model, then a missing root
CheckArgs(s, m, r) ==
    LET s1 == IF m = NoModel THEN throwException(s, "ModelMissing") ELSE s
    IN  IF s1.exc = "none" /\ r = NoRoot THEN throwException(s1, "RootMissing")
        ELSE s1

\* the declarations bind works on: those given, or, when none are given,
\* the default ones discovered under the root
GraphOf(decls, r) ==
    InitBindings(IF decls = <<>> THEN createDefaultBindings(r) ELSE decls, r)

\* _initElBindings reporting a zero-match selector
CheckBindings(s, g) ==
    IF s.exc = "none" /\ BadBinding(g) THEN throwException(s, "BadBinding") ELSE s

\* _bindModelToView: this._model.on('change', ...)
Listen(s) ==
    IF s.exc # "none" THEN s
    ELSE IF s.model = NoModel THEN Throw(s, TypeError)
    ELSE [s EXCEPT !.modelListening = @ \cup {s.model}]

\* _bindViewToModel: the delegated listeners go on every element of the
\* jQuery object this._rootEl, which is empty when bind was given no root
ListenRoot(s) ==
    IF s.exc # "none" THEN s
    ELSE [s EXCEPT !.rootListening = @ \cup ({s.rootEl} \cap Roots)]

\* this._model = model: from here on the engine reads and writes model m
SetModel(s, m) ==
    IF m = NoModel THEN [s EXCEPT !.model = m]
    ELSE [Refocus(s, m) EXCEPT !.model = m]

\* the initial copy that ends bind (C)
C_initialCopy(s) ==
    IF s.exc # "none" THEN s
    ELSE CASE s.options.initialCopyDirection = "ModelToView" -> C_toView(s, <<>>, TRUE)
           [] s.options.initialCopyDirection = "ViewToModel" -> C_toModel(s, NoEl)
           [] OTHER -> s

\* bind (C), after the argument checks and unbind: the graph is resolved
\* while this._options still holds the previous options, then model, root,
\* graph and options are stored and the listeners attached
C_bindGraph(s, m, r, g, o) ==
    IF s.exc # "none" THEN s
    ELSE C_initialCopy(ListenRoot(Listen(
            [SetModel(s, m) EXCEPT !.rootEl = r, !.bindings = g, !.options = initOptions(s.classOptions, o),
                                   !.bindingSetting = NoFlags])))

\* utils.updateValues(srcBindings, composeAttributeBindings, true): every
\* value of the declarations object is replaced, in the object itself, by
\* the attribute binding {modelAttr, bindings} composed from it
C_updateValues(decls) ==
    [i \in 1..Len(decls) |->
        [modelAttr |-> decls[i].modelAttr,
         raw |-> << [config |-> decls[i].modelAttr] >>]]

\* a declarations object that holds an attribute binding composed by an
\* earlier bind: $.extend(true, {...}, binding) copies it deeply and follows
\* bindings[i].parent back to the attribute binding without end
CopiesWithoutEnd(decls) ==
    \E i \in 1..Len(decls) : \E j \in 1..Len(decls[i].raw) :
        "config" \in DOMAIN decls[i].raw[j]

\* the declarations object as _initAttrBindings leaves it
C_initAttrBindings(s, decls) ==
    IF CopiesWithoutEnd(decls) THEN Throw(s, RangeError)
    ELSE [s EXCEPT !.srcBindings = IF s.kept THEN C_updateValues(decls) ELSE @]

\* bind resolving the graph before it tears the previous binding down: a
\* selector that matches nothing leaves the previous binding in place
C_bindChecked_resolveFirst(s, m, r, decls, o) ==
    IF s.exc # "none" THEN s
    ELSE IF BadBinding(GraphOf(decls, r)) THEN throwException(s, "BadBinding")
    ELSE C_bindGraph(C_initAttrBindings(Unbound(s), decls), m, r,
                     GraphOf(decls, r), o)

C_bindChecked(s, m, r, decls, o) ==
    IF s.exc # "none" THEN s
    ELSE C_bindGraph(CheckBindings(C_initAttrBindings(Unbound(s), decls),
                                   GraphOf(decls, r)),
                     m, r, GraphOf(decls, r), o)

\* bind (C)
C_bind(s, m, r, decls, o) == C_bindChecked(CheckArgs(s, m, r), m, r, decls, o)

\* the initial copy that ends bind (B)
B_initialCopy(s) ==
    IF s.exc # "none" THEN s
    ELSE CASE s.options.initialCopyDirection = "ModelToView" -> B_toView(s, <<>>, TRUE)
           [] s.options.initialCopyDirection = "ViewToModel" -> B_toModel(s, <<>>, TRUE)
           [] OTHER -> s

\* bind (B), after the argument checks: model, root and options are stored
\* before the graph is resolved
B_bindGraph(s, g) ==
    IF s.exc # "none" THEN s
    ELSE B_initialCopy(ListenRoot(Listen(
            [s EXCEPT !.bindings = g, !.bindingSetting = NoFlags])))

B_bindChecked(s, m, r, decls, o) ==
    IF s.exc # "none" THEN s
    ELSE B_bindGraph(
            CheckBindings([SetModel(Unbound(s), m) EXCEPT !.rootEl = r, !.options = initOptions(s.classOptions, o)],
                          GraphOf(decls, r)),
            GraphOf(decls, r))

\* bind (B)
B_bind(s, m, r, decls, o) == B_bindChecked(CheckArgs(s, m, r), m, r, decls, o)

\* _bindViewToModel (A): attach, then the ViewToModel copy
A_bindViewToModel(s) ==
    IF s.exc # "none" THEN s
    ELSE IF s.options.initialCopyDirection = "ViewToModel"
    THEN A_copyViewValuesToModel(ListenRoot(s), <<>>, TRUE)
    ELSE ListenRoot(s)

\* _bindModelToView (A): attach, then the ModelToView copy
A_bindModelToView(s) ==
    IF s.exc # "none" THEN s
    ELSE IF s.options.initialCopyDirection = "ModelToView"
    THEN A_copyModelAttributesToView(Listen(s), <<>>, TRUE)
    ELSE Listen(s)

\* bind (A), after the argument checks: model, root and options are stored
\* before the graph is resolved; _bindModelToView makes the initial
\* model->view copy before _bindViewToModel attaches the DOM listeners
A_bindGraph(s, g) ==
    IF s.exc # "none" THEN s
    ELSE A_bindViewToModel(A_bindModelToView(
            [s EXCEPT !.bindings = g, !.bindingSetting = NoFlags]))

A_bindChecked(s, m, r, decls, o) ==
    IF s.exc # "none" THEN s
    ELSE A_bindGraph(
            CheckBindings([SetModel(Unbound(s), m) EXCEPT !.rootEl = r, !.options = initOptions(s.classOptions, o)],
                          GraphOf(decls, r)),
            GraphOf(decls, r))

\* bind (A)
A_bind(s, m, r, decls, o) == A_bindChecked(CheckArgs(s, m, r), m, r, decls, o)

-----------------------------------------------------------------------------
(* The state machine.                                                      *)

Revs == {"A", "B", "C"}

\* A's class case calls removeClass(undefined), whose effect differs between
\* jQuery releases; the class scenario runs on B and C
Programs ==
    ((Revs \X Scenarios) \ {<<"A", "state">>}) \cup ({"C"} \X LateScenarios)

NoOp == [op |-> "init", target |-> NoEl, entry |-> Undef, names |-> <<>>,
         noArgs |-> FALSE, exc |-> "none", nestedW |-> {}, echoW |-> {},
         written |-> {}, maxDepth |-> 0, modelWrites |-> <<>>,
         setOptions |-> {}, args |-> <<>>, result |-> <<>>]

\* the initial attributes: new Model(attrs); _previousAttributes starts empty
InitialModels(sc) ==
    {[a \in Attr |-> IF a \in ScenarioAttrs(sc) THEN m[a] ELSE Absent] :
        m \in [ScenarioAttrs(sc) -> UNION {AttrValues(a) : a \in Attr} \cup {Absent}]}

\* the elements the application inserts into and removes from the document
\* while the binder is in use, and those that are out of it at the start
Movable(sc) == IF sc = "grow" THEN {"r2", "r3"} ELSE {}
InitiallyDetached(sc) == IF sc = "grow" THEN {"r3"} ELSE {}

Init ==
    /\ \E p \in Programs : rev = p[1] /\ scenario = p[2]
    /\ attributes \in {m \in InitialModels(scenario) :
                          \A a \in ScenarioAttrs(scenario) :
                              m[a] \in ScenarioValues(scenario, a) \cup {Absent}}
    /\ previousAttributes = [a \in Attr |-> Absent]
    /\ otherAttributes = [a \in Attr |-> IF a = "name" THEN "amy" ELSE Absent]
    /\ otherPrevious = [a \in Attr |-> Absent]
    /\ model = NoModel
    /\ rootEl = NoRoot
    /\ dom = InitDom
    /\ elSetting = [e \in El |-> FALSE]
    /\ bindingSetting = NoFlags
    /\ bindings = <<>>
    /\ options = DefaultOptions
    /\ modelListening = {}
    /\ rootListening = {}
    /\ detached = InitiallyDetached(scenario)
    /\ srcBindings = Declarations(scenario)
    /\ last = NoOp

\* the state a call leaves behind, and what was observed of the call
CommitArgs(s, op, target, entry, names, noArgs, args) ==
    /\ attributes' = Refocus(s, "m1").attributes
    /\ previousAttributes' = Refocus(s, "m1").previousAttributes
    /\ otherAttributes' = Refocus(s, "m1").other
    /\ otherPrevious' = Refocus(s, "m1").otherPrevious
    /\ model' = s.model
    /\ rootEl' = s.rootEl
    /\ dom' = s.dom
    /\ elSetting' = s.elSetting
    /\ bindingSetting' = s.bindingSetting
    /\ bindings' = s.bindings
    /\ options' = s.options
    /\ modelListening' = s.modelListening
    /\ rootListening' = s.rootListening
    /\ last' = [op |-> op, target |-> target, entry |-> entry, names |-> names,
                noArgs |-> noArgs, exc |-> s.exc, nestedW |-> s.nestedW,
                echoW |-> s.echoW, written |-> s.written, maxDepth |-> s.maxDepth,
                modelWrites |-> s.modelWrites, setOptions |-> s.setOptions,
                args |-> args, result |-> <<>>]
    /\ srcBindings' = s.srcBindings
    /\ UNCHANGED <<rev, scenario, detached>>

Commit(s, op, target, entry, names, noArgs) ==
    CommitArgs(s, op, target, entry, names, noArgs, <<>>)

\* the name lists the application passes to toView / toModel
NameLists(sc) ==
    CASE sc = "two" -> {<<"name">>, <<"num">>, <<"name", "num">>}
      [] sc = "num" -> {<<"num">>, <<"name">>, <<"name", "num">>}
      [] OTHER -> {<<a>> : a \in ScenarioAttrs(sc)}

\* binder.bind(m, r, declarations, o); last.names records m and r, last.entry
\* whether o sets suppressThrows, last.args the options o
Bind(m, r, o) ==
    CommitArgs(CASE rev = "A" -> A_bind(Cur(FALSE), m, r, DeclarationsFor(scenario, r), o)
             [] rev = "B" -> B_bind(Cur(FALSE), m, r, DeclarationsFor(scenario, r), o)
             [] OTHER -> C_bind(Cur(FALSE), m, r,
                                IF Keeps(scenario) THEN srcBindings
                                ELSE DeclarationsFor(scenario, r), o),
           "bind", NoEl, IF o.suppressThrows THEN "suppressThrows" ELSE Undef,
           <<m, r>>, FALSE, <<o>>)

\* binder.bind with ViewToModel on B, in an underscore whose _.keys(undefined) throws
BindKeysThrow(o) ==
    /\ rev = "B"
    /\ o.initialCopyDirection = "ViewToModel"
    /\ Commit(B_bind(Cur(TRUE), "m1", "root1", Declarations(scenario), o), "bind",
              NoEl, Undef, <<"m1", "root1">>, FALSE)

\* binder.unbind()
Unbind ==
    Commit(Unbound(Cur(FALSE)), "unbind", NoEl, Undef, <<>>, FALSE)

\* the attributes of model m
AttributesOf(m) == IF m = "m1" THEN attributes ELSE otherAttributes

\* the application sets one attribute of model m: m.set(a, v)
AppSet(m, a, v) ==
    /\ AttributesOf(m)[a] # v
    /\ Commit(ModelSet(Refocus(Cur(FALSE), m), << <<a, v>> >>), "set", m, Undef,
              <<a>>, FALSE)

\* the application removes one attribute of model m: m.unset(a)
AppUnset(m, a) ==
    /\ AttributesOf(m)[a] # Absent
    /\ Commit(ModelSet(Refocus(Cur(FALSE), m), << <<a, Absent>> >>), "unset", m,
              Undef, <<a>>, FALSE)

\* what the user's edit does to the element before `change` is dispatched
Edited(d, e, entry) ==
    IF IsRadio(e)
    THEN [x \in El |-> IF IsRadio(x) THEN [d[x] EXCEPT !.checked = (x = e)] ELSE d[x]]
    ELSE [d EXCEPT ![e].value = entry]

\* the user edits element e and the browser dispatches `change`, which
\* reaches the root's delegated listener when one is attached
UserChange(e, entry) ==
    /\ e \notin detached
    /\ IF IsRadio(e) THEN ~dom[e].checked ELSE dom[e].value # entry
    /\ LET s == [Cur(FALSE) EXCEPT !.dom = Edited(dom, e, entry)]
       IN  Commit(IF RootOf(e) \in rootListening THEN OnViewChange(s, e) ELSE s,
                  "change", e, entry, <<>>, FALSE)

\* binder.toView(names...) / copyModelAttributesToView(names...)
ToView(names, noArgs) ==
    /\ bindings # <<>>
    /\ LET s == Cur(FALSE)
           r == CASE rev = "A" -> A_copyModelAttributesToView(s, names, noArgs)
                  [] rev = "B" -> B_toView(s, names, noArgs)
                  [] OTHER -> C_toView(s, names, noArgs)
       IN  Commit(r, "toView", NoEl, Undef, names, noArgs)

\* binder.toModel(names...) / copyViewValuesToModel(names...).  C's toModel
\* takes an element: called with nothing, or with names (which match no
\* bound element), it finds no binding and sets nothing.
ToModel(names, noArgs, keysThrow) ==
    /\ bindings # <<>>
    /\ keysThrow => rev = "B"
    /\ LET s == Cur(keysThrow)
           r == CASE rev = "A" -> A_copyViewValuesToModel(s, names, noArgs)
                  [] rev = "B" -> B_toModel(s, names, noArgs)
                  [] OTHER -> C_toModel(s, NoEl)
       IN  Commit(r, "toModel", NoEl, Undef, names, noArgs)

\* the application inserts element e into the document, at its place in the
\* markup: $(root).append(e)
AppInsert(e) ==
    /\ e \in detached
    /\ detached' = detached \ {e}
    /\ last' = [NoOp EXCEPT !.op = "insert", !.target = e]
    /\ UNCHANGED <<rev, scenario, attributes, previousAttributes, otherAttributes,
                   otherPrevious, model, rootEl, dom, elSetting, bindingSetting,
                   bindings, options, modelListening, rootListening, srcBindings>>

\* the application takes element e out of the document: $(e).detach()
AppRemove(e) ==
    /\ e \notin detached
    /\ detached' = detached \cup {e}
    /\ last' = [NoOp EXCEPT !.op = "remove", !.target = e]
    /\ UNCHANGED <<rev, scenario, attributes, previousAttributes, otherAttributes,
                   otherPrevious, model, rootEl, dom, elSetting, bindingSetting,
                   bindings, options, modelListening, rootListening, srcBindings>>

\* a call of one of the engine's functions that touches neither binder, model
\* nor DOM, made by the application before it uses the binder: last.args and
\* last.result record the arguments and what the call returned
StaticCall(fn, args, result) ==
    /\ last.op = "init"
    /\ last' = [NoOp EXCEPT !.op = fn, !.args = args, !.result = result]
    /\ UNCHANGED <<rev, scenario, attributes, previousAttributes, otherAttributes,
                   otherPrevious, model, rootEl, dom, elSetting, bindingSetting,
                   bindings, options, modelListening, rootListening, detached,
                   srcBindings>>

\* ModelBinder.mergeBindings(first, second), for one attribute
MergeBindings(first, second) ==
    /\ rev \in {"B", "C"}
    /\ StaticCall("mergeBindings", <<first, second>>,
                  IF rev = "B" THEN B_mergeBindings(first, second)
                  ELSE C_mergeBindings(first, second))

\* what bind's _initOptions and _configureRootElEvents make of the class-level
\* options and the options of the call: the listeners attached to the root
InitOptions(classOptions, o) ==
    /\ rev = "C"
    /\ StaticCall("initOptions", <<classOptions, o>>,
                  configureRootElEvents(initOptions(classOptions, o).changeTriggers))

\* new ModelBinder.CollectionConverter(collection).convert(direction, value)
Convert(collection, direction, value) ==
    StaticCall("convert", <<collection, direction, value>>,
               convert(collection, direction, value))

\* _initAttrBindings on one element binding declared with elAttr d: the
\* elAttr of the element binding it makes
ComposeElementBinding(d) ==
    /\ rev \in {"B", "C"}
    /\ StaticCall("composeElementBinding", <<d>>,
                  elAttrOf(C_composeElementBinding(EB("#disp", d, "identity")).elAttr))

Next ==
    \/ \E o \in ScenarioOptions(scenario) : \E t \in BindTargets(scenario) : Bind(t[1], t[2], o)
    \/ \E o \in OptionSets : BindKeysThrow(o)
    \/ Unbind
    \/ \E m \in ScenarioModels(scenario) : \E a \in ScenarioAttrs(scenario) : \E v \in ScenarioValues(scenario, a) : AppSet(m, a, v)
    \/ \E m \in ScenarioModels(scenario) : \E a \in ScenarioAttrs(scenario) : AppUnset(m, a)
    \/ \E e \in ScenarioInputs(scenario) : \E entry \in ScenarioEntries(scenario, e) : UserChange(e, entry)
    \/ \E e \in Movable(scenario) : AppInsert(e)
    \/ \E e \in Movable(scenario) : AppRemove(e)
    \/ \E names \in NameLists(scenario) : ToView(names, FALSE)
    \/ ToView(<<>>, TRUE)
    \/ \E names \in NameLists(scenario) : \E k \in BOOLEAN : ToModel(names, FALSE, k)
    \/ \E k \in BOOLEAN : ToModel(<<>>, TRUE, k)
    \/ \E first \in FirstDecls : \E second \in SecondDecls : MergeBindings(first, second)
    \/ \E classOptions \in ClassOptionSets : \E o \in TriggerOptionSets :
          InitOptions(classOptions, o)
    \/ \E d \in ElAttrDecls : ComposeElementBinding(d)
    \/ \E collection \in Collections : \E direction \in {"ModelToView", "ViewToModel"} :
          \E value \in ConvertInputs(direction) : Convert(collection, direction, value)

Spec == Init /\ [][Next]_vars

-----------------------------------------------------------------------------
(* Properties.  Every state of the model is one in which no engine handler *)
(* is executing; `last` describes the call that led to it.                 *)

\* model.get(a) in the current state
ModelValue(a) == IF attributes[a] = Absent THEN Undef ELSE attributes[a]

\* the last call was a change event on e that the delegated listener took
\* up, ran through its handler and returned from
HandledChange(e) ==
    /\ last.op = "change" /\ last.target = e /\ last.exc = "none"
    /\ RootOf(e) \in rootListening /\ ~elSetting[e]

\* C1: coercion resync.  When the handler of a change event on the input
\* bound through the rounding filter has returned, the input shows the
\* model->view conversion of the model's current value, whatever the model
\* held before the event.
C1_CoercionResync ==
    (rev = "C" /\ scenario = "num" /\ HandledChange("num"))
        => dom["num"].value = ToStr(ApplyFilter("round", "toView", ModelValue("num")))

\* C2: re-entrancy guard.  While a view event on element e is handled, the
\* change notification triggered by the handler's model write does not
\* write to e.
C2_NoNestedWriteToTarget ==
    (rev = "C" /\ last.op = "change") => last.target \notin last.nestedW

\* C3: whenever no handler is executing, no element and no element binding
\* carries a set _isSetting flag, a handler aborted by an exception included.
C3_FlagsCleared ==
    /\ \A e \in El : ~elSetting[e]
    /\ \A id \in BindingIds : ~bindingSetting[id]

\* C4: no infinite loop.  For one external mutation the handler nesting is
\* bounded: an application set runs the change listener alone, which makes
\* no model write of its own; a change event runs the view handler and, under
\* it, the change listener, and nothing below that.
C4_BoundedNesting ==
    /\ last.op \in {"set", "unset"} => (last.maxDepth <= 1 /\ last.modelWrites = <<>>)
    /\ last.op = "change" => last.maxDepth <= 2
    /\ last.maxDepth <= 2

\* a change event whose model write was notified and written back to the view
C4_Witness ==
    /\ last.op = "change" /\ last.exc = "none" /\ last.maxDepth = 2
    /\ last.modelWrites # <<>> /\ last.written # {}

\* the text inputs bound through identity filters
IdentityInputs == IF scenario \in {"name", "two"} THEN ScenarioInputs(scenario) ELSE {}

\* C5: round trip.  For an identity-filtered binding of a text input: the
\* user's entry s synced view->model and then model->view leaves the model
\* attribute equal to s and the input showing s.
C5_RoundTrip ==
    [][\A e \in IdentityInputs :
          (/\ rev = "C" /\ HandledChange(e)
           /\ last'.op = "toView" /\ last'.exc = "none")
          => (/\ attributes[e] = last.entry /\ dom[e].value = last.entry
              /\ attributes'[e] = last.entry /\ dom'[e].value = last.entry)]_vars

Radios == {e \in El : IsRadio(e)}

\* C6: radio group, view->model.  A view->model sync of the attribute bound
\* to the radio group - by a change event on the newly checked radio or by
\* toModel over the attribute - sets the attribute to the checked radio's
\* value.
C6_RadioGroupRead ==
    (/\ rev = "B" /\ scenario = "color" /\ bindings # <<>> /\ last.exc = "none"
     /\ \/ last.op = "toModel"
        \/ \E r \in Radios : HandledChange(r))
        => \A r \in Radios : dom[r].checked => attributes["color"] = RadioValue(r)

\* a model->view sync of the radio-bound attribute has just completed
C7_Synced ==
    /\ rev = "C" /\ scenario = "color" /\ bindings # <<>> /\ last.exc = "none"
    /\ \/ last.op \in {"toView", "set", "unset"}
       \/ last.op = "bind" /\ options.initialCopyDirection = "ModelToView"

Produced(v) == IF Truthy(v) THEN {v} ELSE {}

\* the element carries the class of the current value, the classes that were
\* on it from the start, and nothing else
C8_InSync == dom["cls"].classes = InitDom["cls"].classes \cup Produced(ModelValue("state"))

\* C8: class binder.  While the element carries the class of the current
\* value, a change of the attribute delivered as a change notification
\* leaves it carrying the class of the new value and not that of the old
\* one, other classes untouched.
C8_ClassFollowsValue ==
    [][(/\ rev = "C" /\ scenario = "state" /\ model \in modelListening /\ C8_InSync
        /\ last'.op \in {"set", "unset"} /\ last'.exc = "none")
       => C8_InSync']_vars

\* "active" replaced by "inactive" through a notification
C8_Witness ==
    /\ rev = "C" /\ scenario = "state" /\ model \in modelListening
    /\ last.op = "set" /\ last.exc = "none" /\ "cls" \in last.written
    /\ previousAttributes["state"] = "active" /\ attributes["state"] = "inactive"
    /\ dom["cls"].classes = {"x", "inactive"}

\* the <<binding, element>> pairs of the graph whose element is a text
\* control bound by value
ValueControls ==
    {w \in Range(ElementPairs(AllBindings(bindings))) :
        /\ IsFormControl(w.e) /\ ~IsRadio(w.e)
        /\ \E i \in 1..Len(w.b.elAttr) : w.b.elAttr[i].key = "value"}

\* C9: initial model->view copy.  When bind returns under the default
\* initialCopyDirection, every bound control shows the model->view
\* conversion of its own attribute's current value, empty when unset.
C9_BindShowsModel ==
    (/\ rev = "C" /\ last.op = "bind" /\ last.exc = "none"
     /\ options.initialCopyDirection = "ModelToView")
        => \A w \in ValueControls :
              dom[w.e].value =
                ToStr(C_getConvertedValue("toView", w.b, "value", ModelValue(w.b.modelAttr)))

\* C10: toModel() with no arguments writes into the model, for every bound
\* attribute with a user-editable element, the view->model conversion of the
\* element's current value.
C10_ToModelCopies ==
    (rev = "C" /\ last.op = "toModel" /\ last.noArgs /\ last.exc = "none")
        => \A w \in ValueControls :
              LET v == C_getConvertedValue("toModel", w.b, Undef,
                                           GetElementValue(dom, w.e))
              IN  ~Thrown(v) => ModelValue(w.b.modelAttr) = v

\* the elements of the element bindings whose attribute is among names (of
\* every element binding when the call had no arguments)
ElsOf(names, noArgs) ==
    UNION {Range(b.boundEls) :
             b \in {x \in Range(AllBindings(bindings)) :
                       noArgs \/ x.modelAttr \in Range(names)}}

\* every elAttr key of graph g is one that _updateView gets to apply: it is
\* neither a css: key nor the name of an inverted binder
AppliedKeys(g) ==
    \A b \in Range(AllBindings(g)) : \A i \in 1..Len(b.elAttr) :
        b.elAttr[i].key \notin Inverted /\ ~IsCss(b.elAttr[i].key)

\* C11: toView(a1..an), the call of the model-change handler with the
\* changed keys included, writes only to elements of element bindings whose
\* attribute is among a1..an and leaves every other element as it was; with
\* no arguments it writes the elements of every bound attribute; names
\* without a binding raise no error.  (In revision A an element that still
\* carries a set flag together with its binding is passed over.  The call
\* completes on a binder that holds a model and a fully resolved graph none
\* of whose keys is a css: key or an inverted binder.)
C11_ToViewFrame ==
    [][(/\ rev \in {"A", "C"}
        /\ \/ last'.op = "toView"
           \/ last'.op \in {"set", "unset"} /\ last'.target \in modelListening)
       => (/\ (model # NoModel /\ ~BadBinding(bindings) /\ AppliedKeys(bindings))
                => last'.exc = "none"
           /\ last'.written \subseteq ElsOf(last'.names, last'.noArgs)
           /\ \A e \in El \ ElsOf(last'.names, last'.noArgs) : dom'[e] = dom[e]
           /\ (last'.op = "toView" /\ last'.exc = "none"
                  /\ \A e \in El : ~elSetting[e])
                 => last'.written = ElsOf(last'.names, last'.noArgs))]_vars

\* toView('name') with two attributes bound wrote the name input alone
C11_Witness ==
    /\ rev = "C" /\ scenario = "two" /\ last.op = "toView" /\ last.exc = "none"
    /\ last.names = <<"name">> /\ ~last.noArgs /\ last.written = {"name"}

\* the binder's listeners sit on this._model and on this._rootEl alone
Subscribed == modelListening \subseteq {model} /\ rootListening \subseteq {rootEl}

\* C12: bind on a bound binder tears the previous binding down first.  After
\* every step the binder is subscribed to at most one model, this._model, and
\* at most one root, this._rootEl; a change of a model that is not this._model
\* (the previously bound one included) writes no element, and a DOM event
\* under a root that is not this._rootEl writes no model.
C12_RebindTearsDown ==
    [][/\ Subscribed'
       /\ Cardinality(modelListening') <= 1 /\ Cardinality(rootListening') <= 1
       /\ (last'.op \in {"set", "unset"} /\ last'.target # model)
             => last'.written = {} /\ dom' = dom /\ last'.exc = "none"
       /\ (last'.op = "change" /\ RootOf(last'.target) # rootEl)
             => /\ last'.modelWrites = <<>> /\ last'.exc = "none"
                /\ attributes' = attributes /\ otherAttributes' = otherAttributes]_vars

\* bound to m1 and the first root, then to m2 and the second root: unsetting
\* the name of m1 left the first root's input with the value m1 had
C12_Witness ==
    /\ rev = "C" /\ scenario = "swap" /\ model = "m2" /\ rootEl = "root2"
    /\ modelListening = {"m2"} /\ rootListening = {"root2"}
    /\ last.op = "unset" /\ last.target = "m1" /\ last.written = {}
    /\ attributes["name"] = Absent /\ dom["name"].value = "bob"

\* no listener attached and no graph
Detached == modelListening = {} /\ rootListening = {} /\ bindings = <<>>

\* C13: unbind leaves the binder without listener and without graph; until
\* the next bind it stays so, a change of a model writes no element and a DOM
\* event writes no model.
C13_UnbindDetaches ==
    [][/\ last'.op = "unbind" => Detached' /\ model' = NoModel
       /\ (Detached /\ last'.op # "bind") => Detached'
       /\ (Detached /\ last'.op \in {"set", "unset"})
             => last'.written = {} /\ dom' = dom /\ last'.exc = "none"
       /\ (Detached /\ last'.op = "change")
             => /\ last'.modelWrites = <<>> /\ last'.exc = "none"
                /\ attributes' = attributes /\ otherAttributes' = otherAttributes]_vars

\* bound to the first root and unbound since: the user's edit of the name
\* input did not reach the model
C13_Witness ==
    /\ rev = "C" /\ scenario = "name" /\ rootEl = "root1" /\ model = NoModel
    /\ Detached /\ last.op = "change" /\ last.target = "name"
    /\ last.entry = "bob" /\ attributes["name"] # "bob"

\* C14: unbind is idempotent.  On a binder that was never bound, or is
\* unbound, unbind raises no error and changes nothing of the binder, the
\* models or the view; so unbind twice leaves what unbind once leaves.
C14_UnbindIdempotent ==
    [][(last'.op = "unbind" /\ Detached /\ model = NoModel)
       => /\ last'.exc = "none"
          /\ UNCHANGED <<attributes, previousAttributes, otherAttributes,
                         otherPrevious, model, rootEl, dom, elSetting,
                         bindingSetting, bindings, options, modelListening,
                         rootListening>>]_vars

\* unbind on a binder that was never bound
C14_Witness ==
    /\ rev = "A" /\ rootEl = NoRoot /\ model = NoModel /\ Detached
    /\ last.op = "unbind" /\ last.exc = "none"

\* C15: bind with the model or the root left out fails with a configuration
\* error raised to the caller and attaches no listener to any model or root.
C15_BindNeedsModelAndRoot ==
    [][(last'.op = "bind" /\ (last'.names[1] = NoModel \/ last'.names[2] = NoRoot))
       => /\ last'.exc \in {"ModelMissing", "RootMissing"}
          /\ modelListening' \subseteq modelListening
          /\ rootListening' \subseteq rootListening]_vars

\* C16: a missing selector fails loudly.  A bind whose declarations hold a
\* selector that matches nothing under the root raises the configuration
\* error from bind, and the graph of a binder bound to a model and a root
\* never holds an element binding without elements - unless the options of
\* that bind set suppressThrows.
C16_MissingSelectorFails ==
    [][/\ (/\ last'.op = "bind"
           /\ last'.names[1] # NoModel /\ last'.names[2] # NoRoot
           /\ BadBinding(GraphOf(DeclarationsFor(scenario, last'.names[2]), last'.names[2])))
          => (last'.exc = "BadBinding" \/ options'.suppressThrows)
       /\ (model' # NoModel /\ rootEl' # NoRoot /\ BadBinding(bindings'))
             => options'.suppressThrows]_vars

\* C17: with suppressThrows set in the options passed to bind, a selector
\* that matches nothing raises no error: bind returns a binder bound to the
\* model and the root whose graph lacks that binding, and the toView calls
\* and model changes that follow complete without error.
C17_SuppressedMissingSelector ==
    [][/\ (/\ last'.op = "bind" /\ last'.entry = "suppressThrows"
           /\ last'.names[1] # NoModel /\ last'.names[2] # NoRoot
           /\ BadBinding(GraphOf(DeclarationsFor(scenario, last'.names[2]), last'.names[2])))
          => /\ last'.exc = "none"
             /\ ~BadBinding(bindings')
             /\ model' = last'.names[1] /\ modelListening' = {model'}
             /\ rootEl' = last'.names[2] /\ rootListening' = {rootEl'}
       /\ (options.suppressThrows /\ model \in modelListening
              /\ last'.op \in {"toView", "set", "unset"})
          => last'.exc = "none"]_vars

\* two element bindings that contain e convert what e holds in DOM d to
\* different values for one model attribute
Disagree(g, d, e) ==
    \E b1, b2 \in Range(GetBindingsForElement(g, e)) :
        LET v1 == C_getConvertedValue("toModel", b1, Undef, GetElementValue(d, e))
            v2 == C_getConvertedValue("toModel", b2, Undef, GetElementValue(d, e))
        IN  b1.modelAttr = b2.modelAttr /\ ~Thrown(v1) /\ ~Thrown(v2) /\ v1 # v2

\* C18: when two element bindings that contain the event target yield
\* different converted values for one model attribute, the view->model pass
\* reports a configuration error to the caller and writes nothing to the
\* model (revision C, errors not suppressed).
C18_ConflictReported ==
    [][(/\ rev = "C" /\ last'.op = "change"
        /\ RootOf(last'.target) \in rootListening /\ ~elSetting[last'.target]
        /\ ~options.suppressThrows /\ ~BadBinding(bindings)
        /\ Disagree(bindings, Edited(dom, last'.target, last'.entry), last'.target))
       => /\ last'.exc = "ConfigError"
          /\ last'.modelWrites = <<>>
          /\ attributes' = attributes /\ otherAttributes' = otherAttributes]_vars

\* the user entered 3.7 in an input bound twice to num, once rounding and
\* once as is: the error was raised and the model kept its attributes
C18_Witness ==
    /\ rev = "C" /\ scenario = "conflict" /\ rootListening = {"root1"}
    /\ ~options.suppressThrows
    /\ last.op = "change" /\ last.target = "num" /\ last.entry = "3.7"
    /\ last.exc = "ConfigError" /\ last.modelWrites = <<>>

\* C19: with suppressThrows set, a configuration error found in a
\* view->model pass is logged, not raised, and the offending write is
\* skipped: the model attribute keeps the value it had before the pass.
C19_SuppressedConflictSkipsWrite ==
    [][(/\ rev = "C" /\ last'.op = "change"
        /\ RootOf(last'.target) \in rootListening /\ ~elSetting[last'.target]
        /\ options.suppressThrows /\ ~BadBinding(bindings)
        /\ Disagree(bindings, Edited(dom, last'.target, last'.entry), last'.target))
       => /\ last'.exc = "none"
          /\ last'.modelWrites = <<>>
          /\ attributes' = attributes /\ otherAttributes' = otherAttributes]_vars

\* the descendants of root r that carry marker value v
Carrying(r, v) == {e \in El : RootOf(e) = r /\ NameAttr(e) = v}

\* C20: default discovery.  Bound without declarations, the binder's graph
\* has one entry per distinct marker value found among the descendants of the
\* root, each with a single element binding whose boundEls are exactly the
\* descendants that carry the value (the three radios named color make one
\* entry with one element binding); no element outside the root's subtree is
\* in any boundEls.
C20_DefaultDiscovery ==
    (scenario = "defaults" /\ bindings # <<>>)
    => /\ {bindings[i].modelAttr : i \in 1..Len(bindings)}
            = {NameAttr(e) : e \in {x \in El : RootOf(x) = rootEl}} \ {Undef}
       /\ \A i, j \in 1..Len(bindings) :
            bindings[i].modelAttr = bindings[j].modelAttr => i = j
       /\ \A i \in 1..Len(bindings) :
            /\ Len(bindings[i].bindings) = 1
            /\ Range(bindings[i].bindings[1].boundEls)
                  = Carrying(rootEl, bindings[i].modelAttr)
            /\ Len(bindings[i].bindings[1].boundEls)
                  = Cardinality(Carrying(rootEl, bindings[i].modelAttr))
            /\ \A e \in Range(bindings[i].bindings[1].boundEls) : RootOf(e) = rootEl

\* bound to the first root without declarations: name and color discovered,
\* the three radios in one element binding, the second root's input left out
C20_Witness ==
    /\ rev = "C" /\ scenario = "defaults" /\ rootEl = "root1"
    /\ last.op = "bind" /\ last.exc = "none" /\ Len(bindings) = 2
    /\ bindings[1].modelAttr = "name" /\ bindings[1].bindings[1].boundEls = <<"name">>
    /\ bindings[2].modelAttr = "color"
    /\ bindings[2].bindings[1].boundEls = <<"r1", "r2", "r3">>

\* the element-binding list a declaration stands for
ListOf(d) == IF IsArray(d) THEN Elements(d) ELSE d

\* C21: merging declarations.  For an attribute declared in both sets the
\* result is the array of the first set's bindings followed by the second's,
\* none dropped, overwritten or nested, whatever the shape of either side;
\* an attribute declared in one set only is carried over unchanged.
C21_MergeConcatenates ==
    (rev = "C" /\ last.op = "mergeBindings")
    => IF last.args[1] = <<>> THEN last.result = last.args[2]
       ELSE IF last.args[2] = <<>> THEN last.result = last.args[1]
       ELSE last.result = <<"[">> \o ListOf(last.args[1]) \o ListOf(last.args[2])
                             \o <<"]">>

\* the element bindings of the graph that contain element e
BindingsAt(e) == Range(GetBindingsForElement(bindings, e))

\* C22: for an element binding declared with forceSync false, handling a
\* view event on one of its elements never writes back to that element,
\* even when the model value converts to something else than the element
\* shows.
C22_NoEchoWithoutForceSync ==
    [][(/\ rev = "C" /\ last'.op = "change"
        /\ RootOf(last'.target) \in rootListening /\ ~elSetting[last'.target]
        /\ ~BadBinding(bindings) /\ BindingsAt(last'.target) # {}
        /\ \A b \in BindingsAt(last'.target) : ~b.forceSync)
       => last'.target \notin last'.written]_vars

\* the current state with options.forceGet set to b
WithForceGet(b) == [Cur(FALSE) EXCEPT !.options.forceGet = b]

\* what toView(names) leaves in the DOM and raises, with forceGet = b
ToViewOutcome(b, names, noArgs) ==
    <<C_toView(WithForceGet(b), names, noArgs).dom,
      C_toView(WithForceGet(b), names, noArgs).exc>>

\* C23: forceGet does not affect results.  In every state of a bound binder,
\* attributes that are bound and not set on the model included, a model->view
\* sync writes the same values to the same elements with forceGet true as
\* with forceGet false.
C23_ForceGetSameResult ==
    (rev = "C" /\ model # NoModel /\ bindings # <<>> /\ ~BadBinding(bindings))
    => /\ ToViewOutcome(TRUE, <<>>, TRUE) = ToViewOutcome(FALSE, <<>>, TRUE)
       /\ \A names \in NameLists(scenario) :
            ToViewOutcome(TRUE, names, FALSE) = ToViewOutcome(FALSE, names, FALSE)

\* the <<selector, event>> pairs of a changeTriggers object
Pairs(config) == {<<k, config[k]>> : k \in Keys(config)}

\* C24: with skipDefaultTriggers true the (selector, event) pairs bind attaches
\* listeners for are exactly the changeTriggers the caller supplied (class-level
\* and per-bind) and none of the built-in defaults; with it false they are the
\* built-in defaults merged with the caller's pairs.
C24_SkipDefaultTriggers ==
    (rev = "C" /\ last.op = "initOptions")
    => IF last.args[2].skipDefaultTriggers
       THEN last.result = Pairs(Extend(last.args[1].changeTriggers,
                                       last.args[2].changeTriggers))
       ELSE last.result = Pairs(Extend(Extend(DefaultChangeTriggers,
                                              last.args[1].changeTriggers),
                                       last.args[2].changeTriggers))

\* the set options the spec gives the engine's writes after bind was called
\* with options o: the class-level ones, the per-bind ones over them, and the
\* marker over both
ExpectedSetOptions(o) ==
    [k \in SetOptionKeys |->
        IF k = "changeSource" THEN "ModelBinder"
        ELSE IF o.modelSetOptions[k] # Absent THEN o.modelSetOptions[k]
        ELSE ClassOptions(scenario).modelSetOptions[k]]

\* C25: every model write the engine performs passes the caller's
\* modelSetOptions (class-level merged with per-bind) together with
\* changeSource = 'ModelBinder', whatever changeSource the caller supplied:
\* the writes of a bind pass what that bind's options give, and the writes of
\* every later call pass the same options, which the binder keeps.
C25_SetOptionsCarryMarker ==
    [][rev = "C"
       => /\ \A so \in last'.setOptions :
                so.changeSource = "ModelBinder" /\ so = options'.modelSetOptions
          /\ (last'.op = "bind" /\ last'.exc = "none")
             => options'.modelSetOptions = ExpectedSetOptions(last'.args[1])
          /\ last'.op \notin {"bind", "init"} => options' = options]_vars

\* after a bind given modelSetOptions {changeSource: 'app'} (the one bound
\* with ViewToModel) a user edit was written to the model, and the write
\* carried the marker and the class-level tag
C25_Witness ==
    /\ rev = "C" /\ scenario = "setopts" /\ last.op = "change"
    /\ options.initialCopyDirection = "ViewToModel"
    /\ last.modelWrites # <<>>
    /\ last.setOptions = {[changeSource |-> "ModelBinder", tag |-> "class"]}

\* what a convert call was given
ConvertCall(direction) == last.op = "convert" /\ last.args[2] = direction

\* model->view returns the item's identifier, or undefined for no value;
\* view->model returns the collection's item that has the identifier
ConvertDirections ==
    /\ ConvertCall("ModelToView")
       => last.result = (IF last.args[3] \in Items THEN ItemId(last.args[3]) ELSE Undef)
    /\ ConvertCall("ViewToModel")
       => \A item \in last.args[1] :
            (ItemId(item) # Undef /\ last.args[3] = ItemId(item)) => last.result = item

\* C26 as stated: CollectionConverter.convert returns, model->view, the
\* referenced item's identifier or undefined when the value is absent, and
\* view->model the collection's item for the identifier; hence for every item
\* of the collection view->model(model->view(item)) is that item.
C26_RoundTripEveryItem ==
    /\ ConvertDirections
    /\ (ConvertCall("ModelToView") /\ last.args[3] \in last.args[1])
       => convert(last.args[1], "ViewToModel", last.result) = last.args[3]

\* C26, amended: the same, with the round trip for every item of the
\* collection that has an identifier.
C26_RoundTripIdentified ==
    /\ ConvertDirections
    /\ (/\ ConvertCall("ModelToView") /\ last.args[3] \in last.args[1]
        /\ ItemId(last.args[3]) # Undef)
       => convert(last.args[1], "ViewToModel", last.result) = last.args[3]

\* item2, whose identifier is 0, converted for the view in a collection of
\* all three items
C26_Witness ==
    /\ ConvertCall("ModelToView") /\ last.args[1] = Items
    /\ last.args[3] = "item2" /\ last.result = "#0"

\* the places <<attribute, element binding>> of the declarations whose raw
\* declaration is neither a string, an object nor an array
Unsupported(decls) ==
    {id \in (1..Len(decls)) \X (1..1) :
        id[2] <= Len(decls[id[1]].raw) /\ "primitive" \in DOMAIN decls[id[1]].raw[id[2]]}

\* C27: bind raises a configuration error when the raw declaration of an
\* attribute is of an unsupported shape (a number, a boolean) - it is raised
\* to the caller unless the options of that bind set suppressThrows - and
\* such a declaration never becomes an element binding of the graph.
C27_UnsupportedShapeRejected ==
    [][(/\ rev = "C" /\ last'.op = "bind"
        /\ last'.names[1] # NoModel /\ last'.names[2] # NoRoot
        /\ Unsupported(DeclarationsFor(scenario, last'.names[2])) # {})
       => /\ last'.entry # "suppressThrows" => last'.exc = "BadBinding"
          /\ \A b \in Range(AllBindings(bindings')) :
                b.id \notin Unsupported(DeclarationsFor(scenario, last'.names[2]))]_vars

\* the mapping {n1: true, ..., nk: true}, as the sequence of its entries
AllTrue(names) == [k \in 1..Len(names) |-> [key |-> names[k], filter |-> "true"]]

\* C28: elAttr normalization.  After bind an element binding's elAttr is the
\* mapping {value: true} when the declaration omitted elAttr, {name: true}
\* when it was the string name, and {n1: true, ..., nk: true} when it was the
\* array [n1..nk].
C28_ElAttrNormalized ==
    (rev = "C" /\ last.op = "composeElementBinding")
    => last.result = AllTrue(IF last.args[1] = <<>> THEN <<"value">>
                             ELSE ListOf(last.args[1]))

\* attributeFilter(bindingFilter(raw)) for the entry of binding b's elAttr
\* under key, in direction dir; an entry of true is the identity
Composed(b, key, dir, raw) ==
    LET entry == b.elAttr[CHOOSE i \in 1..Len(b.elAttr) : b.elAttr[i].key = key]
    IN  IF entry.filter = "true" THEN ApplyFilter(b.filters, dir, raw)
        ELSE ApplyFilter(entry.filter, dir, ApplyFilter(b.filters, dir, raw))

\* C29: converter composition.  The value an element binding produces is
\* attributeFilter(bindingFilter(raw)) with the functions of the direction, the
\* binding-level filter applied first, in both directions: a handled edit of a
\* text control bound by one element binding leaves that in the model
\* attribute, and a change of the attribute by the application leaves it in
\* every text control bound to the attribute.
C29_CompositionOrder ==
    (rev = "C" /\ model = "m1" /\ ~BadBinding(bindings))
    => /\ \A w \in ValueControls :
            (/\ HandledChange(w.e) /\ TypeAttr(w.e) \in {Undef, "text"}
             /\ Len(GetBindingsForElement(bindings, w.e)) = 1)
            => ModelValue(w.b.modelAttr) = Composed(w.b, "value", "toModel", last.entry)
       /\ (/\ last.op = "set" /\ last.target = "m1" /\ last.exc = "none"
           /\ "m1" \in modelListening)
          => \A w \in ValueControls :
                (w.b.modelAttr = last.names[1] /\ TypeAttr(w.e) \in {Undef, "text"})
                => dom[w.e].value =
                     ToStr(Composed(w.b, "value", "toView", ModelValue(w.b.modelAttr)))

\* the user typed x into the input bound with both filters, and the model
\* holds x, then B from the binding's filter, then A from the attribute's
C29_Witness ==
    /\ rev = "C" /\ scenario = "compose" /\ HandledChange("num")
    /\ last.entry = "x" /\ attributes.num = "xBA"

\* the application set the attribute to 4 and the input shows 4, then b, then a
C29_WitnessToView ==
    /\ rev = "C" /\ scenario = "compose" /\ last.op = "set" /\ last.exc = "none"
    /\ attributes.num = "#4" /\ dom["num"].value = "4ba"

\* the filters element binding b of the graph was declared with (Undef: none)
DeclaredFilters(b) == DeclarationsFor(scenario, rootEl)[b.id[1]].raw[b.id[2]].filters

\* C30: binding-level filter defaulting.  When an explicitly declared element
\* binding supplies no filter and the binder's options configure a default
\* filter (options.defaults.filters), the binding's values pass through the
\* default filter: a handled edit of a text control bound by one such binding
\* leaves the default filter's conversion of the entry in the model attribute.
C30_DefaultFilterUsed ==
    (/\ rev = "C" /\ model = "m1" /\ ~BadBinding(bindings)
     /\ options.defaultFilters # Undef)
    => \A w \in ValueControls :
          (/\ HandledChange(w.e) /\ TypeAttr(w.e) \in {Undef, "text"}
           /\ Len(GetBindingsForElement(bindings, w.e)) = 1
           /\ DeclaredFilters(w.b) = Undef)
          => ModelValue(w.b.modelAttr)
               = ApplyFilter(options.defaultFilters, "toModel", last.entry)


\* what the value binder is to leave in an element that is no radio, checkbox
\* or file input: "0" for the number 0, nothing for the other falsy values
Rendered(v) ==
    IF v = "#0" THEN "0" ELSE IF ~Truthy(v) THEN "" ELSE ToStr(v)

\* a filter that converts nothing
PassThrough(f) == f \notin {"round", "tagA", "tagB"}

\* the bound elements that element binding w.b writes through the value binder
ValueBound ==
    {w \in Range(ElementPairs(AllBindings(bindings))) :
        \E i \in 1..Len(w.b.elAttr) : w.b.elAttr[i].key = "value"}

\* C31: the value binder.  After the application set an attribute of the bound
\* model and the model->view sync returned, an element bound by value through
\* one identity binding is, for a radio, checked iff its own value equals the
\* model value, for a checkbox checked iff the value is truthy, for a file
\* input untouched, and for every other element it shows "0" for the number 0,
\* the empty string for undefined, null, false and "", the value otherwise.
C31_ValueBinderRendering ==
    (/\ rev = "C" /\ last.op = "set" /\ last.target = "m1" /\ model = "m1"
     /\ last.exc = "none" /\ ~BadBinding(bindings) /\ Len(AttrKeys(bindings)) = 1)
    => \A w \in ValueBound :
          (/\ Len(GetBindingsForElement(bindings, w.e)) = 1
           /\ PassThrough(w.b.filters)
           /\ \A i \in 1..Len(w.b.elAttr) : PassThrough(w.b.elAttr[i].filter))
          => CASE TypeAttr(w.e) = "radio" ->
                    dom[w.e].checked = (RadioValue(w.e) = ModelValue(w.b.modelAttr))
               [] TypeAttr(w.e) = "checkbox" ->
                    dom[w.e].checked = Truthy(ModelValue(w.b.modelAttr))
               [] TypeAttr(w.e) = "file" -> w.e \notin last.written
               [] OTHER ->
                    IF IsFormControl(w.e)
                    THEN dom[w.e].value = Rendered(ModelValue(w.b.modelAttr))
                    ELSE dom[w.e].text = Rendered(ModelValue(w.b.modelAttr))

\* the application set an attribute of the bound model m1 and the call returned
\* or threw; the graph is resolved and has one attribute
SetOnBound ==
    /\ last.op = "set" /\ last.target = "m1" /\ model = "m1"
    /\ ~BadBinding(bindings) /\ Len(AttrKeys(bindings)) = 1

\* the bound elements, each with the element binding that holds it
BoundPairs == Range(ElementPairs(AllBindings(bindings)))

\* C32: registry fallback.  After the application set the attribute of a
\* binding declared with pass-through filters, the sync has returned without
\* error and, for every elAttr key that names no registered binder, every
\* bound element holds the new value in the style property (a css: key) or
\* in the HTML attribute of that name (any other key); an element whose
\* binding has only registered binder names as keys has no raw attribute
\* and no style property written.
C32_RegistryFallback ==
    (rev = "C" /\ SetOnBound)
    => \A w \in BoundPairs :
          /\ \A i \in 1..Len(w.b.elAttr) :
                (/\ w.b.elAttr[i].key \notin Binders
                 /\ PassThrough(w.b.filters) /\ PassThrough(w.b.elAttr[i].filter))
                => /\ last.exc = "none"
                   /\ IsCss(w.b.elAttr[i].key)
                         => dom[w.e].color = ToStr(ModelValue(w.b.modelAttr))
                   /\ w.b.elAttr[i].key = "title"
                         => dom[w.e].title = ToStr(ModelValue(w.b.modelAttr))
          /\ (/\ \A i \in 1..Len(w.b.elAttr) : w.b.elAttr[i].key \in Binders
              /\ Len(GetBindingsForElement(bindings, w.e)) = 1)
             => dom[w.e].title = Undef /\ dom[w.e].color = ""

\* C33: inverse binder pairs.  After the application set the attribute of a
\* binding declared with pass-through filters, the sync has returned without
\* error and every element bound through `enabled` has its disabled property
\* equal to the negation of the new value, every element bound through
\* `displayed` is hidden iff the new value is falsy.
C33_InverseBinders ==
    (rev = "C" /\ SetOnBound)
    => \A w \in BoundPairs :
          \A i \in 1..Len(w.b.elAttr) :
             (/\ w.b.elAttr[i].key \in Inverted
              /\ PassThrough(w.b.filters) /\ PassThrough(w.b.elAttr[i].filter))
             => /\ last.exc = "none"
                /\ w.b.elAttr[i].key = "enabled"
                      => dom[w.e].disabled = ~Truthy(ModelValue(w.b.modelAttr))
                /\ w.b.elAttr[i].key = "displayed"
                      => dom[w.e].hidden = ~Truthy(ModelValue(w.b.modelAttr))

\* C37: a view event on an element of non-readable bindings.  When the
\* delegated listener has taken up a change event whose target belongs to
\* element bindings none of which is readable, the handler has returned
\* without error and has written nothing to the model.
C37_NonReadableNoWrite ==
    (/\ rev = "C" /\ model = "m1" /\ ~BadBinding(bindings)
     /\ last.op = "change" /\ RootOf(last.target) \in rootListening
     /\ GetBindingsForElement(bindings, last.target) # <<>>
     /\ \A b \in Range(GetBindingsForElement(bindings, last.target)) :
           ~IsBindingReadable(b))
    => last.exc = "none" /\ last.modelWrites = <<>>

\* the boundEls of every element binding of graph g
BoundElsOf(g) == [i \in 1..Len(g) |-> [j \in 1..Len(g[i].bindings) |->
                    g[i].bindings[j].boundEls]]

\* the elements that are in the boundEls of some element binding of graph g
AllBound(g) == UNION {Range(b.boundEls) : b \in Range(AllBindings(g))}

\* C34: boundEls is fixed at bind time.  A step that is neither bind nor
\* unbind - a model change, a view event, the insertion or the removal of an
\* element - leaves the boundEls of every element binding as they are, and a
\* change event whose target is in no boundEls changes no model.
C34_BoundElsFixed ==
    [][/\ last'.op \notin {"bind", "unbind"} => BoundElsOf(bindings') = BoundElsOf(bindings)
       /\ (last'.op = "change" /\ last'.target \notin AllBound(bindings))
             => /\ attributes' = attributes /\ otherAttributes' = otherAttributes
                /\ last'.modelWrites = <<>>]_vars

\* the application inserted the third radio after the bind; the user checks
\* it, the delegated listener takes the event up, and the radio is in no
\* boundEls although the binding's selector matches it
C34_Witness ==
    /\ rev = "C" /\ scenario = "grow" /\ model = "m1" /\ "root1" \in rootListening
    /\ last.op = "change" /\ last.target = "r3" /\ last.exc = "none"
    /\ dom["r3"].checked /\ "r3" \notin AllBound(bindings)
    /\ "r1" \in AllBound(bindings) /\ ~elSetting["r3"]

\* C36: bind leaves the caller's declarations unchanged.  A bind called with
\* a model and a root leaves the declarations object of the application as
\* it was, and where the application passes one declarations object to every
\* bind, each of these binds returns without error and stores the graph that
\* the declarations resolve to.
C36_DeclarationsUnchanged ==
    [][(/\ rev = "C" /\ last'.op = "bind"
        /\ last'.names[1] # NoModel /\ last'.names[2] # NoRoot)
       => /\ srcBindings' = srcBindings
          /\ Keeps(scenario)
                => /\ last'.exc = "none"
                   /\ bindings' = InitBindings(Declarations(scenario), rootEl')]_vars

\* element e shows, through every value or text key of element binding b, the
\* model->view conversion of value v: applying the binder again changes nothing
Shows(b, e, v) ==
    \A i \in 1..Len(b.elAttr) :
        b.elAttr[i].key \in {"value", "text"}
        => ApplyBinder(dom, e, b.elAttr[i].key,
                       C_getConvertedValueIn(options.defaultFilters, "toView", b,
                                             b.elAttr[i].key, v), Undef) = dom

\* a change event on a bound element that the delegated listener took up and
\* whose handler returned
C35_Handled ==
    /\ rev = "C" /\ model = "m1" /\ ~BadBinding(bindings)
    /\ last.op = "change" /\ HandledChange(last.target)

\* what the event's element held when the event was dispatched
Entered(e) == IF IsRadio(e) THEN RadioValue(e) ELSE last.entry

\* the model attribute of pair t holds the view->model conversion of what
\* t's element held, and every other element bound to the attribute shows
\* the model->view conversion of the attribute's value
C35_Propagated(t) ==
    /\ ModelValue(t.b.modelAttr)
         = C_getConvertedValueIn(options.defaultFilters, "toModel", t.b,
                                 Undef, Entered(t.e))
    /\ \A w \in BoundPairs :
          (w.b.modelAttr = t.b.modelAttr /\ w.e # t.e)
          => Shows(w.b, w.e, ModelValue(t.b.modelAttr))

\* C35: one-to-many propagation.  When the handler of a change event on a
\* bound element has returned, the model attribute of the element's binding
\* holds the view->model conversion of what the element held, and every
\* other element bound to that attribute shows the model->view conversion of
\* the attribute's value.
C35_OneToMany ==
    C35_Handled
    => \A t \in BoundPairs :
          (t.e = last.target /\ Len(GetBindingsForElement(bindings, t.e)) = 1)
          => C35_Propagated(t)

\* C35, for the events that change the model: when the handler of a change
\* event on a bound element has returned and the event changed the value of
\* the model attribute of the element's binding, the attribute holds the
\* view->model conversion of what the element held and every other element
\* bound to the attribute shows the model->view conversion of the new value.
C35_OneToManyOnChange ==
    [][C35_Handled'
       => \A t \in BoundPairs' :
             (/\ t.e = last'.target
              /\ Len(GetBindingsForElement(bindings', t.e)) = 1
              /\ attributes'[t.b.modelAttr] # attributes[t.b.modelAttr])
             => C35_Propagated(t)']_vars

\* the user typed bob into the name input while the model held another name,
\* and the mirror shows bob
C35_Witness ==
    /\ C35_Handled /\ scenario = "name" /\ last.target = "name"
    /\ attributes.name = "bob" /\ previousAttributes.name # "bob"
    /\ dom["disp"].text = "bob" /\ "disp" \in last.written

\* the graph a bind to root r resolves from the scenario's declarations
ResolvedFor(r) == GraphOf(DeclarationsFor(scenario, r), r)

\* C38: a bind that fails after the teardown.  A bind that raises the error
\* of a selector without match leaves the binder without model listener,
\* without DOM listener and with an empty graph; the next bind, when its
\* model and root are given and its declarations resolve, returns without
\* error, holds the resolved graph, listens to its model and its root, and
\* under the default copy direction every bound control shows its
\* attribute's value.
C38_FailedBindLeavesUnbound ==
    [][rev = "C"
       => /\ (last'.op = "bind" /\ last'.exc = "BadBinding")
                => Detached' /\ model' = NoModel
          /\ (/\ last.op = "bind" /\ last.exc = "BadBinding" /\ ~Keeps(scenario)
              /\ last'.op = "bind"
              /\ last'.names[1] # NoModel /\ last'.names[2] # NoRoot
              /\ ~BadBinding(ResolvedFor(last'.names[2])))
             => /\ last'.exc = "none"
                /\ model' = last'.names[1] /\ rootEl' = last'.names[2]
                /\ modelListening' = {model'} /\ rootListening' = {rootEl'}
                /\ bindings' = ResolvedFor(rootEl')
                /\ (options'.initialCopyDirection = "ModelToView" /\ model' = "m1")
                      => \A w \in ValueControls' :
                            dom'[w.e].value =
                              ToStr(C_getConvertedValue("toView", w.b, "value",
                                        ModelValue(w.b.modelAttr)'))]_vars

\* the binder was bound to the first form and had written bob into its input;
\* the bind to the second form, where #num matches nothing, raised the error
\* and left the binder without listener and without graph
C38_Witness ==
    /\ rev = "C" /\ scenario = "missing"
    /\ last.op = "bind" /\ last.exc = "BadBinding" /\ last.names = <<"m1", "root2">>
    /\ Detached /\ model = NoModel /\ rootEl = "root1"
    /\ dom["name"].value = "bob"
=============================================================================
